---- MODULE Spec2Model ----
(***************************************************************************)
(* The knowledge-graph store of servers/memory: KnowledgeGraphManager, its *)
(* reader-writer lock, the write operations with their save and rollback   *)
(* paths, and the dot-path metadata mutator.                               *)
(*                                                                         *)
(* Go maps are references.  A metadata map is therefore an address into    *)
(* `heap`, and a struct copy of an Entity shares its metadata map with the *)
(* record it was copied from, exactly as in the source.                    *)
(***************************************************************************)
EXTENDS Integers, Sequences, FiniteSets, TLC

\* ----------------------------------------------------------------------
\* Bounds
\* ----------------------------------------------------------------------
MaxList == 2
MaxOps == 2
MaxDepth == 2
MaxTime == 3

\* ----------------------------------------------------------------------
\* Values
\* ----------------------------------------------------------------------
Procs == {1, 2}

EntityIdSeq == <<"e1", "e2", "u1">>
Uuids == {"u1"}
RelationUuids == {"u2"}
ObservationUuids == {"u3"}
EntityIds == {EntityIdSeq[i] : i \in 1..Len(EntityIdSeq)}
RelationIds == {"r1", "r2"}
ObservationIds == {"o1", "o2"}
Times == {1, 2}
KeySeq == <<"a", "b">>
Keys == {KeySeq[i] : i \in 1..Len(KeySeq)}

\* a JSON scalar, a reference to a Go map on the heap, a JSON object
Num(n) == [tag |-> "num", v |-> n]
Ref(a) == [tag |-> "map", v |-> a]
Obj(f) == [tag |-> "obj", v |-> f]
EmptyMap == [k \in {} |-> Num(0)]
NilMap == 0

Put(h, a, k, val) ==
    [h EXCEPT ![a] = [x \in (DOMAIN h[a]) \cup {k} |-> IF x = k THEN val ELSE h[a][x]]]
Del(h, a, k) ==
    [h EXCEPT ![a] = [x \in (DOMAIN h[a]) \ {k} |-> h[a][x]]]

\* strings.Contains on strings modelled as sequences of characters
Contains(s, sub) ==
    \E i \in 0..(Len(s) - Len(sub)) : SubSeq(s, i + 1, i + Len(sub)) = sub

\* json.Marshal of a value held in memory: the JSON tree it denotes
RECURSIVE Marshal(_, _)
Marshal(h, val) ==
    IF val.tag = "map"
    THEN Obj([k \in DOMAIN h[val.v] |-> Marshal(h, h[val.v][k])])
    ELSE val

\* json.Unmarshal of a JSON tree into interface{}: every object becomes a
\* freshly allocated map
RECURSIVE Unmarshal(_, _), UnmarshalKeys(_, _, _, _)
Unmarshal(h, tree) ==
    IF tree.tag = "obj"
    THEN LET a == Len(h) + 1
         IN [h |-> UnmarshalKeys(Append(h, EmptyMap), a, tree.v, 1), val |-> Ref(a)]
    ELSE [h |-> h, val |-> tree]
UnmarshalKeys(h, a, f, i) ==
    IF i > Len(KeySeq) THEN h
    ELSE IF KeySeq[i] \notin DOMAIN f THEN UnmarshalKeys(h, a, f, i + 1)
    ELSE LET r == Unmarshal(h, f[KeySeq[i]])
         IN UnmarshalKeys(Put(r.h, a, KeySeq[i], r.val), a, f, i + 1)

\* a copy that is only the reference: the rollback would restore the map it
\* is meant to undo
deepCopyMapShallow(h, src) == [h |-> h, addr |-> src]

\* deepCopyMap: nil stays nil, anything else goes through a JSON round trip
deepCopyMap(h, src) ==
    IF src = NilMap THEN [h |-> h, addr |-> NilMap]
    ELSE LET r == Unmarshal(h, Marshal(h, Ref(src)))
         IN [h |-> r.h, addr |-> r.val.v]

\* the JSON value of a metadata field; with omitempty a nil map and an empty
\* map are both left out of the document
MetaValue(h, addr) ==
    IF addr = NilMap THEN Obj(EmptyMap) ELSE Marshal(h, Ref(addr))

\* setNestedValue: the map at address `cur` is changed in place; the result
\* carries the heap after the call and whether the call returned an error
RECURSIVE setNestedValueFrom(_, _, _, _, _, _)
setNestedValueFrom(h, cur, parts, i, value, operation) ==
    LET part == parts[i] IN
    IF i = Len(parts)
    THEN CASE operation = "delete" -> [h |-> Del(h, cur, part), err |-> FALSE]
           [] operation = "replace" -> [h |-> Put(h, cur, part, value), err |-> FALSE]
           [] operation = "merge" ->
                IF part \notin DOMAIN h[cur]
                THEN [h |-> Put(h, cur, part, value), err |-> FALSE]
                ELSE LET existing == h[cur][part] IN
                     IF existing.tag = "map" /\ value.tag = "map"
                     THEN LET em == existing.v
                              vm == h[value.v]
                              merged == [k \in (DOMAIN h[em]) \cup (DOMAIN vm) |->
                                            IF k \in DOMAIN vm THEN vm[k] ELSE h[em][k]]
                          IN [h |-> [h EXCEPT ![em] = merged], err |-> FALSE]
                     ELSE [h |-> Put(h, cur, part, value), err |-> FALSE]
           [] OTHER -> [h |-> h, err |-> TRUE]
    ELSE IF part \notin DOMAIN h[cur]
         THEN IF operation = "delete"
              THEN [h |-> h, err |-> FALSE]
              ELSE LET a == Len(h) + 1
                       h1 == Put(Append(h, EmptyMap), cur, part, Ref(a))
                   IN setNestedValueFrom(h1, a, parts, i + 1, value, operation)
         ELSE LET next == h[cur][part] IN
              IF next.tag # "map"
              THEN IF operation = "delete"
                   THEN [h |-> h, err |-> FALSE]
                   ELSE [h |-> h, err |-> TRUE]
              ELSE setNestedValueFrom(h, next.v, parts, i + 1, value, operation)

\* a setNestedValue whose merge is a replace
setNestedValueReplacing(h, data, path, value, operation) ==
    setNestedValueFrom(h, data, path, 1, value,
                       IF operation = "merge" THEN "replace" ELSE operation)

\* a setNestedValue that reports no error
setNestedValueNoError(h, data, path, value, operation) ==
    [setNestedValueFrom(h, data, path, 1, value, operation) EXCEPT !.err = FALSE]

setNestedValue(h, data, path, value, operation) ==
    setNestedValueFrom(h, data, path, 1, value, operation)

\* the loop `for path, value := range updates` with its break on the first
\* error, for one iteration order `order` of the update map
RECURSIVE applyUpdates(_, _, _, _, _, _)
applyUpdates(h, data, updates, order, i, operation) ==
    IF i > Len(order) THEN [h |-> h, err |-> FALSE]
    ELSE LET r == setNestedValue(h, data, order[i], updates[order[i]], operation)
         IN IF r.err THEN r
            ELSE applyUpdates(r.h, data, updates, order, i + 1, operation)

\* ----------------------------------------------------------------------
\* State
\* ----------------------------------------------------------------------
VARIABLES
    filePath,       \* KnowledgeGraphManager.filePath
    disk,           \* the file at filePath
    entities,       \* graph.Entities: id -> Entity struct
    relations,      \* graph.Relations
    observations,   \* graph.Observations
    heap,           \* the Go maps that metadata fields refer to
    mu,             \* the sync.RWMutex: writer held, number of readers
    crashed,        \* the runtime stopped the process (fatal error)
    pc,             \* where each caller is in its operation
    call,           \* the operation and arguments of each caller
    loc,            \* the local variables of each caller
    ret,            \* what the operation returned
    hist,           \* what is remembered about each call to state the properties
    nops            \* operations begun so far

vars == <<filePath, disk, entities, relations, observations, heap, mu, crashed,
          pc, call, loc, ret, hist, nops>>

EmptyFcn == [x \in {} |-> 0]
NoEntity == [id |-> "", type |-> "", name |-> <<>>, description |-> <<>>, meta |-> NilMap]
NoMeta == [tag |-> "none", v |-> 0]

Range(s) == {s[i] : i \in 1..Len(s)}
Lists(S) == UNION {[1..n -> S] : n \in 0..MaxList}
Perms(S) == {s \in [1..Cardinality(S) -> S] : \A a \in S : \E i \in 1..Cardinality(S) : s[i] = a}

With(f, k, val) == [x \in (DOMAIN f) \cup {k} |-> IF x = k THEN val ELSE f[x]]
Without(f, k) == [x \in (DOMAIN f) \ {k} |-> f[x]]

\* ----------------------------------------------------------------------
\* The document
\* ----------------------------------------------------------------------
EntityValue(h, e) ==
    [type |-> e.type, name |-> e.name, description |-> e.description,
     metadata |-> MetaValue(h, e.meta)]

\* json.MarshalIndent(m.graph): the document as a JSON value
DocOf(ents, rels, obs, h) ==
    [entities |-> [id \in DOMAIN ents |-> EntityValue(h, ents[id])],
     relations |-> rels,
     observations |-> obs]

EmptyDoc == [entities |-> EmptyFcn, relations |-> EmptyFcn, observations |-> EmptyFcn]

Missing == [kind |-> "missing", doc |-> EmptyDoc]
Corrupt == [kind |-> "corrupt", doc |-> EmptyDoc]
\* a write that reports success and leaves a truncated file
FileTruncated(doc) == Corrupt
File(doc) == [kind |-> "doc", doc |-> doc]

\* json.Unmarshal(data, &m.graph): the entities of a document, one after the
\* other, each metadata object into maps of its own; a metadata field that is
\* absent from the document leaves the map nil
RECURSIVE UnmarshalEntities(_, _, _, _)
UnmarshalEntities(h, ents, docEnts, i) ==
    IF i > Len(EntityIdSeq) THEN [h |-> h, ents |-> ents]
    ELSE LET id == EntityIdSeq[i] IN
         IF id \notin DOMAIN docEnts THEN UnmarshalEntities(h, ents, docEnts, i + 1)
         ELSE LET d == docEnts[id]
                  r == IF d.metadata = Obj(EmptyMap)
                       THEN [h |-> h, val |-> Ref(NilMap)]
                       ELSE Unmarshal(h, d.metadata)
                  e == [id |-> id, type |-> d.type, name |-> d.name,
                        description |-> d.description, meta |-> r.val.v]
              IN UnmarshalEntities(r.h, With(ents, id, e), docEnts, i + 1)

\* loadGraph as NewKnowledgeGraphManager uses it: the error is dropped, so a
\* missing file, an unreadable one and an empty path all give the empty graph
loadGraph(path, file) ==
    IF path = "" \/ file.kind # "doc"
    THEN [h |-> <<>>, ents |-> EmptyFcn, rels |-> EmptyFcn, obs |-> EmptyFcn]
    ELSE LET r == UnmarshalEntities(<<>>, EmptyFcn, file.doc.entities, 1)
         IN [h |-> r.h, ents |-> r.ents, rels |-> file.doc.relations,
             obs |-> file.doc.observations]

\* what a fresh manager opened on the path would hold, as a JSON value
Reopened ==
    LET g == loadGraph(filePath, disk) IN DocOf(g.ents, g.rels, g.obs, g.h)

Current == DocOf(entities, relations, observations, heap)

\* ----------------------------------------------------------------------
\* Callers, the lock, and what is remembered about a call
\* ----------------------------------------------------------------------
NoCall == [op |-> "", list |-> <<>>, id |-> "", updates |-> EmptyFcn, operation |-> "",
           filter |-> [type |-> "", nameContains |-> <<>>, descriptionContains |-> <<>>],
           startNodeIDs |-> <<>>, algorithm |-> "", maxDepth |-> 0, radius |-> 0,
           nodeFilter |-> <<>>, relationFilter |-> <<>>,
           startNodeID |-> "", endNodeID |-> "", maxLength |-> 0,
           entityID |-> "", startTime |-> 0, endTime |-> 0,
           observationType |-> "", tags |-> <<>>,
           targetType |-> "", filters |-> <<>>, sortBy |-> "", sortOrder |-> "",
           limit |-> 0, offset |-> 0]
\* A KnowledgeGraph struct in a caller's hands holds three map references: a
\* reference to the map the manager holds now (Live), or to a map the manager
\* has let go of, with the contents that map keeps (Detached)
Live == [tag |-> "live"]
Detached(m) == [tag |-> "map", v |-> m]
NoGraph == [entities |-> Detached(EmptyFcn), relations |-> Detached(EmptyFcn),
            observations |-> Detached(EmptyFcn)]

\* TraverseResult (the visited entities by id, in the order of their first
\* visit, and their depths) and SubgraphResult
NoResult == [visitedEntities |-> <<>>, visitedDepths |-> EmptyFcn,
             subgraphEntities |-> {}, subgraphRelations |-> EmptyFcn, paths |-> <<>>,
             timeline |-> <<>>,
             results |-> <<>>, total |-> 0, limit |-> 0, offset |-> 0]

NoLoc == [i |-> 0, orig |-> EmptyFcn, ent |-> NoEntity, matched |-> <<>>,
          saveErr |-> FALSE, seen |-> EmptyFcn, graph |-> NoGraph,
          queue |-> <<>>, stack |-> <<>>, visited |-> EmptyFcn, res |-> NoResult,
          candidates |-> <<>>, sorted |-> <<>>, evaluated |-> {}]
NoRet == [status |-> "none", kind |-> ""]
NoHist == [serial |-> 0, pre |-> EmptyDoc, mutated |-> FALSE, wrote |-> FALSE,
           saved |-> FALSE, alone |-> TRUE, valid |-> FALSE, applied |-> FALSE,
           pathErr |-> FALSE, before |-> EmptyFcn, post |-> EmptyFcn, overlap |-> {},
           lockSeq |-> 0, writeSeq |-> 0, returned |-> EmptyDoc]

Ok == [status |-> "ok", kind |-> ""]
Err(kind) == [status |-> "err", kind |-> kind]

LockFree == ~mu.w /\ mu.r = 0

\* caller p is at `label`, and the process is still running
At(p, label) == ~crashed /\ pc[p] = label

\* sync.RWMutex.Unlock: the mutex has no owner, so a held lock is released
\* whoever took it
Unlock == mu' = [mu EXCEPT !.w = FALSE] /\ crashed' = crashed

\* "fatal error: sync: Unlock of unlocked RWMutex": the runtime stops the
\* process where it is
Fatal ==
    /\ crashed' = TRUE
    /\ UNCHANGED <<filePath, disk, entities, relations, observations, heap, mu,
                   pc, call, loc, ret, hist, nops>>

\* the entity collection by value
Stored(ents, h) == [id \in DOMAIN ents |-> EntityValue(h, ents[id])]

\* the call of p changed the store, or not
Touch(p, changed) ==
    [hist EXCEPT ![p].mutated = @ \/ changed, ![p].saved = @ /\ ~changed]

\* the place of a call in the order in which the calls in flight took the
\* write lock for their change, and in the order of the document writes
Max(S) == CHOOSE x \in S : \A y \in S : y <= x
NextLockSeq == 1 + Max({hist[q].lockSeq : q \in Procs})
NextWriteSeq == 1 + Max({hist[q].writeSeq : q \in Procs})

\* Touch by a call that has just taken the write lock for its change
LockedTouch(p, changed) == [Touch(p, changed) EXCEPT ![p].lockSeq = NextLockSeq]

Goto(p, label) == pc' = [pc EXCEPT ![p] = label]
Return(p, r) == pc' = [pc EXCEPT ![p] = "done"] /\ ret' = [ret EXCEPT ![p] = r]

\* a caller enters an operation
Enter(p, c, h, label) ==
    /\ At(p, "idle")
    /\ nops < MaxOps
    /\ nops' = nops + 1
    /\ call' = [call EXCEPT ![p] = c]
    /\ heap' = h
    /\ loc' = [loc EXCEPT ![p] = NoLoc]
    /\ ret' = [ret EXCEPT ![p] = NoRet]
    /\ hist' = [q \in Procs |->
                  IF q = p
                  THEN [NoHist EXCEPT !.serial = nops + 1, !.pre = Current,
                                      !.alone = \A o \in Procs \ {p} : pc[o] = "idle"]
                  ELSE IF pc[q] = "idle" THEN hist[q]
                  ELSE [hist[q] EXCEPT !.alone = FALSE]]
    /\ Goto(p, label)
    /\ UNCHANGED <<filePath, disk, entities, relations, observations, mu, crashed>>

\* the argument list of entity structs as the caller built it: each metadata
\* object is a map of its own
RECURSIVE allocEntities(_, _, _)
allocEntities(h, in, i) ==
    IF i > Len(in) THEN [h |-> h, list |-> <<>>]
    ELSE LET r == IF in[i].metadata = NoMeta
                  THEN [h |-> h, val |-> Ref(NilMap)]
                  ELSE Unmarshal(h, in[i].metadata)
             rest == allocEntities(r.h, in, i + 1)
             e == [id |-> in[i].id, type |-> in[i].type, name |-> in[i].name,
                   description |-> in[i].description, meta |-> r.val.v]
         IN [h |-> rest.h, list |-> <<e>> \o rest.list]

\* the update map as the caller built it
RECURSIVE allocUpdates(_, _, _)
allocUpdates(h, in, rest) ==
    IF rest = {} THEN [h |-> h, updates |-> EmptyFcn]
    ELSE LET path == CHOOSE x \in rest : TRUE
             r == Unmarshal(h, in[path])
             more == allocUpdates(r.h, in, rest \ {path})
         IN [h |-> more.h, updates |-> With(more.updates, path, r.val)]

\* generateID: a uuid is an id nobody uses; the ids it can give to the one
\* element of `in` that comes without an id
generateID(in, pool, used) ==
    IF \E i \in 1..Len(in) : in[i].id = "" THEN pool \ used ELSE {""}

\* ----------------------------------------------------------------------
\* saveGraph
\* ----------------------------------------------------------------------
\* where an operation continues after saveGraph returned
AfterSave(op) ==
    CASE op = "UpdateEntities" -> "UE_relock"
      [] op = "UpdateMetadataForEntity" -> "UM_saved"
      [] op = "BulkUpdateMetadata" -> "BK_saved"
      [] OTHER -> "return"

\* entry of saveGraph: nothing to do without a path, else take the lock
saveGraphEnter(p) ==
    /\ At(p, "save")
    /\ IF filePath = ""
       THEN /\ loc' = [loc EXCEPT ![p].saveErr = FALSE]
            /\ Goto(p, AfterSave(call[p].op))
            /\ UNCHANGED mu
       ELSE /\ LockFree
            /\ mu' = [mu EXCEPT !.w = TRUE]
            /\ Goto(p, "SV_write")
            /\ UNCHANGED loc
    /\ UNCHANGED <<filePath, disk, entities, relations, observations, heap, crashed,
                   call, ret, hist, nops>>

\* a saveGraph that writes the document as it was when the call began
saveGraphWriteSnapshot(p) ==
    /\ At(p, "SV_write")
    /\ \E ok \in BOOLEAN :
         /\ disk' = IF ok THEN File(hist[p].pre) ELSE disk
         /\ loc' = [loc EXCEPT ![p].saveErr = ~ok]
         /\ hist' = [hist EXCEPT ![p].saved = ok, ![p].wrote = TRUE,
                                  ![p].writeSeq = NextWriteSeq]
    /\ mu' = mu
    /\ Goto(p, "SV_unlock")
    /\ UNCHANGED <<filePath, entities, relations, observations, heap, crashed, call, ret, nops>>

\* a saveGraph that reports what os.WriteFile reports and writes nothing
saveGraphWriteSkipped(p) ==
    /\ At(p, "SV_write")
    /\ \E ok \in BOOLEAN :
         /\ disk' = disk
         /\ loc' = [loc EXCEPT ![p].saveErr = ~ok]
         /\ hist' = [hist EXCEPT ![p].saved = ok, ![p].wrote = TRUE,
                                  ![p].writeSeq = NextWriteSeq]
    /\ mu' = mu
    /\ Goto(p, "SV_unlock")
    /\ UNCHANGED <<filePath, entities, relations, observations, heap, crashed, call, ret, nops>>

\* os.WriteFile under the lock, then the deferred Unlock; a failed write
\* leaves the old file or a truncated one
saveGraphWrite(p) ==
    /\ At(p, "SV_write")
    /\ \E ok \in BOOLEAN :
         /\ IF ok THEN disk' = File(Current) ELSE disk' \in {disk, Corrupt}
         /\ loc' = [loc EXCEPT ![p].saveErr = ~ok]
         /\ hist' = [hist EXCEPT ![p].saved = ok, ![p].wrote = TRUE,
                                  ![p].writeSeq = NextWriteSeq]
    /\ mu' = mu
    /\ Goto(p, "SV_unlock")
    /\ UNCHANGED <<filePath, entities, relations, observations, heap, crashed, call, ret, nops>>

\* the deferred Unlock of saveGraph
saveGraphUnlock(p) ==
    /\ At(p, "SV_unlock")
    /\ IF ~mu.w THEN Fatal
       ELSE /\ Unlock
            /\ Goto(p, AfterSave(call[p].op))
            /\ UNCHANGED <<filePath, disk, entities, relations, observations, heap,
                           call, loc, ret, hist, nops>>

\* a caller that drops the error of saveGraph
saveGraphReturnIgnoringError(p) ==
    /\ At(p, "return")
    /\ Return(p, Ok)
    /\ UNCHANGED <<filePath, disk, entities, relations, observations, heap, mu, crashed,
                   call, loc, hist, nops>>

\* `if err := m.saveGraph(); err != nil { return err }; return ..., nil`
saveGraphReturn(p) ==
    /\ At(p, "return")
    /\ Return(p, IF loc[p].saveErr THEN Err("persistence") ELSE Ok)
    /\ UNCHANGED <<filePath, disk, entities, relations, observations, heap, mu, crashed,
                   call, loc, hist, nops>>

\* ----------------------------------------------------------------------
\* CreateEntities
\* ----------------------------------------------------------------------
BeginCreateEntities(p, in) ==
    LET a == allocEntities(heap, in, 1)
    IN Enter(p, [NoCall EXCEPT !.op = "CreateEntities", !.list = a.list], a.h, "CE_lock")

CreateEntitiesLock(p) ==
    /\ At(p, "CE_lock")
    /\ LockFree
    /\ mu' = [mu EXCEPT !.w = TRUE]
    /\ loc' = [loc EXCEPT ![p].i = 1]
    /\ hist' = [hist EXCEPT ![p].lockSeq = NextLockSeq, ![p].before = Stored(entities, heap)]
    /\ Goto(p, "CE_loop")
    /\ UNCHANGED <<filePath, disk, entities, relations, observations, heap, crashed,
                   call, ret, nops>>

\* one iteration of the loop; leaving the loop releases the lock
CreateEntitiesStep(p) ==
    /\ At(p, "CE_loop")
    /\ LET i == loc[p].i
           list == call[p].list
           Rest == <<filePath, disk, relations, observations, heap, call, nops>>
       IN IF i > Len(list)
          THEN IF ~mu.w THEN Fatal
               ELSE /\ Unlock
                    /\ Goto(p, "save")
                    /\ hist' = [hist EXCEPT ![p].valid = TRUE, ![p].applied = TRUE,
                                             ![p].post = Stored(entities, heap)]
                    /\ UNCHANGED <<entities, loc, ret>>
                    /\ UNCHANGED Rest
          ELSE \E id \in IF list[i].id = "" THEN generateID(list, Uuids, DOMAIN entities)
                          ELSE {list[i].id} :
                 IF id \in DOMAIN entities
                 THEN IF ~mu.w THEN Fatal
                      ELSE /\ Unlock
                           /\ Return(p, Err("conflict"))
                           /\ UNCHANGED <<entities, loc, hist>>
                           /\ UNCHANGED Rest
                 ELSE /\ entities' = With(entities, id, [list[i] EXCEPT !.id = id])
                      /\ loc' = [loc EXCEPT ![p].i = i + 1]
                      /\ hist' = Touch(p, TRUE)
                      /\ UNCHANGED <<mu, crashed, pc, ret>>
                      /\ UNCHANGED Rest

\* ----------------------------------------------------------------------
\* UpdateEntities
\* ----------------------------------------------------------------------
BeginUpdateEntities(p, in) ==
    LET a == allocEntities(heap, in, 1)
    IN Enter(p, [NoCall EXCEPT !.op = "UpdateEntities", !.list = a.list], a.h, "UE_lock")

\* a validation pass that only looks for the missing id
firstInvalidIdOnly(ents, updates, i) ==
    IF \E j \in i..Len(updates) : updates[j].id = ""
    THEN CHOOSE j \in i..Len(updates) :
           updates[j].id = "" /\ \A k \in i..(j - 1) : updates[k].id # ""
    ELSE 0

\* Pass 1: the index of the first patch that is refused, 0 when none is
RECURSIVE firstInvalid(_, _, _)
firstInvalid(ents, updates, i) ==
    IF i > Len(updates) THEN 0
    ELSE IF updates[i].id = "" \/ updates[i].id \notin DOMAIN ents THEN i
    ELSE firstInvalid(ents, updates, i + 1)

\* Lock, the deferred Unlock armed, and the validation pass
UpdateEntitiesValidate(p) ==
    /\ At(p, "UE_lock")
    /\ LockFree
    /\ LET bad == firstInvalid(entities, call[p].list, 1)
       IN IF bad # 0
          THEN /\ Return(p, Err(IF call[p].list[bad].id = "" THEN "badarg" ELSE "notfound"))
               /\ UNCHANGED <<mu, loc, hist>>
          ELSE /\ mu' = [mu EXCEPT !.w = TRUE]
               /\ loc' = [loc EXCEPT ![p].i = 1]
               /\ hist' = [hist EXCEPT ![p].valid = TRUE, ![p].lockSeq = NextLockSeq,
                                        ![p].before = Stored(entities, heap)]
               /\ Goto(p, "UE_apply")
               /\ UNCHANGED ret
    /\ UNCHANGED <<filePath, disk, entities, relations, observations, heap, crashed,
                   call, nops>>

\* a patch whose fields always replace the old ones, empty or not
patchFieldsOverwriting(existing, u) ==
    [existing EXCEPT !.type = u.type, !.name = u.name, !.description = u.description]

\* the patched struct: non-empty fields of the patch replace the old ones
patchFields(existing, u) ==
    [existing EXCEPT !.type = IF u.type # "" THEN u.type ELSE @,
                     !.name = IF u.name # <<>> THEN u.name ELSE @,
                     !.description = IF u.description # <<>> THEN u.description ELSE @]

\* `for k, v := range updateData.Metadata { entityToUpdate.Metadata[k] = v }`
mergeMetadata(h, dst, src) ==
    [h EXCEPT ![dst] = [k \in (DOMAIN h[dst]) \cup (DOMAIN h[src]) |->
                           IF k \in DOMAIN h[src] THEN h[src][k] ELSE h[dst][k]]]

\* Pass 2: one patch; after the last one the lock is released for the save
UpdateEntitiesApply(p) ==
    /\ At(p, "UE_apply")
    /\ LET i == loc[p].i
           list == call[p].list
           Rest == <<filePath, disk, relations, observations, call, ret, nops>>
       IN IF i > Len(list)
          THEN IF ~mu.w THEN Fatal
               ELSE /\ Unlock
                    /\ Goto(p, "save")
                    /\ hist' = [hist EXCEPT ![p].applied = TRUE,
                                             ![p].post = Stored(entities, heap)]
                    /\ UNCHANGED <<entities, heap, loc>>
                    /\ UNCHANGED Rest
          ELSE LET u == list[i]
                   existing == IF u.id \in DOMAIN entities THEN entities[u.id] ELSE NoEntity
                   patched == patchFields(existing, u)
                   fresh == Len(heap) + 1
                   h1 == IF u.meta # NilMap /\ patched.meta = NilMap
                         THEN Append(heap, EmptyMap) ELSE heap
                   e2 == IF u.meta # NilMap /\ patched.meta = NilMap
                         THEN [patched EXCEPT !.meta = fresh] ELSE patched
                   h2 == IF u.meta # NilMap THEN mergeMetadata(h1, e2.meta, u.meta) ELSE h1
               IN /\ entities' = With(entities, u.id, e2)
                  /\ heap' = h2
                  /\ loc' = [loc EXCEPT ![p].i = i + 1,
                                        ![p].orig = With(@, u.id, existing)]
                  /\ hist' = Touch(p, Stored(entities', heap') # Stored(entities, heap))
                  /\ UNCHANGED <<mu, crashed, pc>>
                  /\ UNCHANGED Rest

\* `m.mu.Lock() // Relock`, then either the return with its deferred Unlock
\* or the Unlock that opens the rollback
UpdateEntitiesRelock(p) ==
    /\ At(p, "UE_relock")
    /\ LockFree
    /\ IF loc[p].saveErr
       THEN Goto(p, "UE_rollback") /\ UNCHANGED ret
       ELSE Return(p, Ok)
    /\ UNCHANGED <<filePath, disk, entities, relations, observations, heap, mu, crashed,
                   call, loc, hist, nops>>

\* Lock, `m.graph.Entities[id] = original` for every saved original, Unlock
UpdateEntitiesRollback(p) ==
    /\ At(p, "UE_rollback")
    /\ LockFree
    /\ entities' = [id \in (DOMAIN entities) \cup (DOMAIN loc[p].orig) |->
                      IF id \in DOMAIN loc[p].orig THEN loc[p].orig[id] ELSE entities[id]]
    /\ hist' = Touch(p, Stored(entities', heap) # Stored(entities, heap))
    /\ Goto(p, "UE_unlock")
    /\ UNCHANGED <<filePath, disk, relations, observations, heap, mu, crashed,
                   call, loc, ret, nops>>

\* the return after the rollback runs the deferred Unlock once more
UpdateEntitiesDeferredUnlock(p) ==
    /\ At(p, "UE_unlock")
    /\ IF ~mu.w THEN Fatal
       ELSE /\ Unlock
            /\ Return(p, Err("persistence"))
            /\ UNCHANGED <<filePath, disk, entities, relations, observations, heap,
                           call, loc, hist, nops>>

\* ----------------------------------------------------------------------
\* DeleteEntities, CreateRelations, DeleteRelations, AddObservations,
\* DeleteObservations: Lock, the loop, Unlock
\* ----------------------------------------------------------------------
\* a delete loop that takes nothing away when it meets a missing id
RECURSIVE deleteLoopAllOrNothing(_, _, _)
deleteLoopAllOrNothing(coll, ids, i) ==
    IF \E j \in i..Len(ids) : ids[j] \notin DOMAIN coll \/ \E k \in i..(j - 1) : ids[k] = ids[j]
    THEN [coll |-> coll, err |-> TRUE]
    ELSE [coll |-> [x \in (DOMAIN coll) \ {ids[j] : j \in i..Len(ids)} |-> coll[x]],
          err |-> FALSE]

RECURSIVE deleteLoop(_, _, _)
deleteLoop(coll, ids, i) ==
    IF i > Len(ids) THEN [coll |-> coll, err |-> FALSE]
    ELSE IF ids[i] \notin DOMAIN coll THEN [coll |-> coll, err |-> TRUE]
    ELSE deleteLoop(Without(coll, ids[i]), ids, i + 1)

BeginDeleteEntities(p, ids) ==
    Enter(p, [NoCall EXCEPT !.op = "DeleteEntities", !.list = ids], heap, "DE_body")

\* a DeleteEntities that cascades to the relations and observations of the
\* deleted entities
DeleteEntitiesCascading(p) ==
    /\ At(p, "DE_body")
    /\ LockFree
    /\ LET r == deleteLoop(entities, call[p].list, 1)
       IN /\ entities' = r.coll
          /\ relations' = [id \in {x \in DOMAIN relations :
                                     /\ relations[x].source \in DOMAIN r.coll
                                     /\ relations[x].target \in DOMAIN r.coll}
                             |-> relations[id]]
          /\ observations' = [id \in {x \in DOMAIN observations :
                                        observations[x].entity_id \in DOMAIN r.coll}
                                |-> observations[id]]
          /\ IF r.err THEN Return(p, Err("notfound")) ELSE Goto(p, "save") /\ UNCHANGED ret
    /\ hist' = LockedTouch(p, entities' # entities)
    /\ UNCHANGED <<filePath, disk, heap, mu, crashed, call, loc, nops>>

DeleteEntitiesBody(p) ==
    /\ At(p, "DE_body")
    /\ LockFree
    /\ LET r == deleteLoop(entities, call[p].list, 1)
       IN /\ entities' = r.coll
          /\ IF r.err THEN Return(p, Err("notfound")) ELSE Goto(p, "save") /\ UNCHANGED ret
    /\ hist' = LockedTouch(p, entities' # entities)
    /\ UNCHANGED <<filePath, disk, relations, observations, heap, mu, crashed,
                   call, loc, nops>>

\* `fresh` is what generateID gives when an element comes without an id
RECURSIVE createRelationsLoop(_, _, _, _, _)
createRelationsLoop(rels, ents, in, fresh, i) ==
    IF i > Len(in) THEN [coll |-> rels, err |-> ""]
    ELSE LET r == IF in[i].id = "" THEN [in[i] EXCEPT !.id = fresh] ELSE in[i]
         IN IF r.id \in DOMAIN rels THEN [coll |-> rels, err |-> "conflict"]
            ELSE IF r.source \notin DOMAIN ents \/ r.target \notin DOMAIN ents
                 THEN [coll |-> rels, err |-> "notfound"]
            ELSE createRelationsLoop(With(rels, r.id, r), ents, in, fresh, i + 1)

BeginCreateRelations(p, in) ==
    Enter(p, [NoCall EXCEPT !.op = "CreateRelations", !.list = in], heap, "CR_body")

CreateRelationsBody(p) ==
    /\ At(p, "CR_body")
    /\ LockFree
    /\ \E fresh \in generateID(call[p].list, RelationUuids, DOMAIN relations) :
       LET r == createRelationsLoop(relations, entities, call[p].list, fresh, 1)
       IN /\ relations' = r.coll
          /\ IF r.err # "" THEN Return(p, Err(r.err)) ELSE Goto(p, "save") /\ UNCHANGED ret
    /\ hist' = LockedTouch(p, relations' # relations)
    /\ UNCHANGED <<filePath, disk, entities, observations, heap, mu, crashed,
                   call, loc, nops>>

\* a match by id only: a spec without an id matches nothing
shouldKeepUnlessId(id, relation, specs) ==
    ~ \E j \in 1..Len(specs) : specs[j].id # "" /\ id = specs[j].id

\* the inner loop of DeleteRelations: the first match spec that names the
\* relation, by id when the spec has one, else by source, target and type
shouldKeep(id, relation, specs) ==
    ~ \E j \in 1..Len(specs) :
        IF specs[j].id # "" THEN id = specs[j].id
        ELSE /\ relation.source = specs[j].source
             /\ relation.target = specs[j].target
             /\ relation.type = specs[j].type

BeginDeleteRelations(p, specs) ==
    Enter(p, [NoCall EXCEPT !.op = "DeleteRelations", !.list = specs], heap, "DR_body")

DeleteRelationsBody(p) ==
    /\ At(p, "DR_body")
    /\ LockFree
    /\ relations' = [id \in {x \in DOMAIN relations : shouldKeep(x, relations[x], call[p].list)}
                        |-> relations[id]]
    /\ loc' = [q \in Procs |->
                 IF loc[q].graph.relations = Live
                 THEN [loc[q] EXCEPT !.graph.relations = Detached(relations)]
                 ELSE loc[q]]
    /\ hist' = LockedTouch(p, relations' # relations)
    /\ Goto(p, "save")
    /\ UNCHANGED <<filePath, disk, entities, observations, heap, mu, crashed,
                   call, ret, nops>>

\* `now` is what time.Now() gave for each element
RECURSIVE addObservationsLoop(_, _, _, _, _, _)
addObservationsLoop(obs, ents, in, fresh, now, i) ==
    IF i > Len(in) THEN [coll |-> obs, err |-> ""]
    ELSE LET o == [in[i] EXCEPT !.id = IF @ = "" THEN fresh ELSE @,
                                !.timestamp = IF @ = 0 THEN now[i] ELSE @]
         IN IF o.id \in DOMAIN obs THEN [coll |-> obs, err |-> "conflict"]
            ELSE IF o.entity_id \notin DOMAIN ents THEN [coll |-> obs, err |-> "notfound"]
            ELSE addObservationsLoop(With(obs, o.id, o), ents, in, fresh, now, i + 1)

BeginAddObservations(p, in) ==
    Enter(p, [NoCall EXCEPT !.op = "AddObservations", !.list = in], heap, "AO_body")

AddObservationsBody(p) ==
    /\ At(p, "AO_body")
    /\ LockFree
    /\ \E now \in [1..Len(call[p].list) -> Times],
          fresh \in generateID(call[p].list, ObservationUuids, DOMAIN observations) :
         /\ \A i, j \in 1..Len(call[p].list) : i <= j => now[i] <= now[j]
         /\ LET r == addObservationsLoop(observations, entities, call[p].list, fresh, now, 1)
            IN /\ observations' = r.coll
               /\ IF r.err # "" THEN Return(p, Err(r.err))
                  ELSE Goto(p, "save") /\ UNCHANGED ret
    /\ hist' = LockedTouch(p, observations' # observations)
    /\ UNCHANGED <<filePath, disk, entities, relations, heap, mu, crashed,
                   call, loc, nops>>

BeginDeleteObservations(p, ids) ==
    Enter(p, [NoCall EXCEPT !.op = "DeleteObservations", !.list = ids], heap, "DO_body")

DeleteObservationsBody(p) ==
    /\ At(p, "DO_body")
    /\ LockFree
    /\ LET r == deleteLoop(observations, call[p].list, 1)
       IN /\ observations' = r.coll
          /\ IF r.err THEN Return(p, Err("notfound")) ELSE Goto(p, "save") /\ UNCHANGED ret
    /\ hist' = LockedTouch(p, observations' # observations)
    /\ UNCHANGED <<filePath, disk, entities, relations, heap, mu, crashed,
                   call, loc, nops>>

\* ----------------------------------------------------------------------
\* UpdateMetadataForEntity
\* ----------------------------------------------------------------------
BeginUpdateMetadataForEntity(p, id, in, operation) ==
    LET a == allocUpdates(heap, in, DOMAIN in)
    IN Enter(p, [NoCall EXCEPT !.op = "UpdateMetadataForEntity", !.id = id,
                               !.updates = a.updates, !.operation = operation],
             a.h, "UM_body")

\* from Lock to the Unlock before the save, or to an earlier return
UpdateMetadataForEntityBody(p) ==
    /\ At(p, "UM_body")
    /\ LockFree
    /\ LET id == call[p].id
           operation == call[p].operation
       IN IF id \notin DOMAIN entities
          THEN /\ Return(p, Err("notfound"))
               /\ UNCHANGED <<entities, heap, loc, hist>>
          ELSE IF entities[id].meta = NilMap /\ operation = "delete"
          THEN /\ Return(p, Ok)
               /\ UNCHANGED <<entities, heap, loc, hist>>
          ELSE LET fresh == Len(heap) + 1
                   h1 == IF entities[id].meta = NilMap THEN Append(heap, EmptyMap) ELSE heap
                   entity == IF entities[id].meta = NilMap
                             THEN [entities[id] EXCEPT !.meta = fresh] ELSE entities[id]
                   copy == deepCopyMap(h1, entity.meta)
               IN \E order \in Perms(DOMAIN call[p].updates) :
                    LET r == applyUpdates(copy.h, entity.meta, call[p].updates, order, 1,
                                          operation)
                    IN /\ heap' = r.h
                       /\ IF r.err
                          THEN /\ Return(p, Err("badarg"))
                               /\ UNCHANGED <<entities, loc>>
                          ELSE /\ entities' = [entities EXCEPT ![id] = entity]
                               /\ loc' = [loc EXCEPT ![p].ent = entity,
                                                     ![p].orig = With(EmptyFcn, id, copy.addr)]
                               /\ Goto(p, "save")
                               /\ UNCHANGED ret
                       /\ hist' = [LockedTouch(p, Stored(entities', heap') # Stored(entities, heap))
                                     EXCEPT ![p].pathErr = r.err,
                                            ![p].post = Stored(entities', heap')]
    /\ UNCHANGED <<filePath, disk, relations, observations, mu, crashed, call, nops>>

\* after the save: return the entity, or Lock, put the copy back, Unlock
UpdateMetadataForEntitySaved(p) ==
    /\ At(p, "UM_saved")
    /\ IF loc[p].saveErr
       THEN /\ LockFree
            /\ entities' = With(entities, call[p].id,
                                [loc[p].ent EXCEPT !.meta = loc[p].orig[call[p].id]])
            /\ hist' = Touch(p, Stored(entities', heap) # Stored(entities, heap))
            /\ Return(p, Err("persistence"))
       ELSE /\ Return(p, Ok)
            /\ UNCHANGED <<entities, hist>>
    /\ UNCHANGED <<filePath, disk, relations, observations, heap, mu, crashed,
                   call, loc, nops>>

\* ----------------------------------------------------------------------
\* BulkUpdateMetadata
\* ----------------------------------------------------------------------
BeginBulkUpdateMetadata(p, filter, in, operation) ==
    LET a == allocUpdates(heap, in, DOMAIN in)
    IN Enter(p, [NoCall EXCEPT !.op = "BulkUpdateMetadata", !.filter = filter,
                               !.updates = a.updates, !.operation = operation],
             a.h, "BK_filter")

matchesFilter(entity, filter) ==
    /\ ~(filter.type # "" /\ entity.type # filter.type)
    /\ ~(filter.nameContains # <<>> /\ ~Contains(entity.name, filter.nameContains))
    /\ ~(filter.descriptionContains # <<>>
           /\ ~Contains(entity.description, filter.descriptionContains))

\* the deep copies of Pass 1, taken in the order the entities were matched
RECURSIVE copyOriginals(_, _, _, _)
copyOriginals(h, ents, ids, i) ==
    IF i > Len(ids) THEN [h |-> h, orig |-> EmptyFcn]
    ELSE LET c == deepCopyMap(h, ents[ids[i]].meta)
             rest == copyOriginals(c.h, ents, ids, i + 1)
         IN [h |-> rest.h, orig |-> With(rest.orig, ids[i], c.addr)]

\* Lock and Pass 1; the range over the map visits the entities in any order
BulkUpdateMetadataFilter(p) ==
    /\ At(p, "BK_filter")
    /\ LockFree
    /\ LET hits == {id \in DOMAIN entities : matchesFilter(entities[id], call[p].filter)}
       IN IF hits = {}
          THEN /\ Return(p, Ok)
               /\ UNCHANGED <<heap, mu, loc, hist>>
          ELSE \E ids \in Perms(hits) :
                 LET c == copyOriginals(heap, entities, ids, 1)
                 IN /\ heap' = c.h
                    /\ hist' = [hist EXCEPT ![p].lockSeq = NextLockSeq, ![p].before = Stored(entities, heap)]
                    /\ mu' = [mu EXCEPT !.w = TRUE]
                    /\ loc' = [loc EXCEPT ![p].i = 1, ![p].orig = c.orig,
                                          ![p].matched = [i \in 1..Len(ids) |-> entities[ids[i]]]]
                    /\ Goto(p, "BK_apply")
                    /\ UNCHANGED ret
    /\ UNCHANGED <<filePath, disk, entities, relations, observations, crashed,
                   call, nops>>

\* a rollback loop that restores nothing
restoreNothing(ents, orig) == ents

\* the rollback loop of BulkUpdateMetadata, used on both error paths
restoreOriginals(ents, orig) ==
    [id \in DOMAIN ents |->
        IF id \in DOMAIN orig THEN [ents[id] EXCEPT !.meta = orig[id]] ELSE ents[id]]

\* Pass 2: one matched entity; an error restores every original and returns
BulkUpdateMetadataApply(p) ==
    /\ At(p, "BK_apply")
    /\ LET i == loc[p].i
           matched == loc[p].matched
           operation == call[p].operation
           Rest == <<filePath, disk, relations, observations, call, nops>>
       IN IF i > Len(matched)
          THEN IF ~mu.w THEN Fatal
               ELSE /\ Unlock
                    /\ Goto(p, "save")
                    /\ hist' = [hist EXCEPT ![p].valid = TRUE, ![p].applied = TRUE,
                                             ![p].post = Stored(entities, heap)]
                    /\ UNCHANGED <<entities, heap, loc, ret>>
                    /\ UNCHANGED Rest
          ELSE IF matched[i].meta = NilMap /\ operation = "delete"
          THEN /\ loc' = [loc EXCEPT ![p].i = i + 1]
               /\ UNCHANGED <<entities, heap, mu, crashed, pc, ret, hist>>
               /\ UNCHANGED Rest
          ELSE LET fresh == Len(heap) + 1
                   h1 == IF matched[i].meta = NilMap THEN Append(heap, EmptyMap) ELSE heap
                   entityToUpdate == IF matched[i].meta = NilMap
                                     THEN [matched[i] EXCEPT !.meta = fresh] ELSE matched[i]
               IN \E order \in Perms(DOMAIN call[p].updates) :
                    LET r == applyUpdates(h1, entityToUpdate.meta, call[p].updates, order, 1,
                                          operation)
                    IN IF r.err
                       THEN IF ~mu.w THEN Fatal
                            ELSE /\ heap' = r.h
                                 /\ entities' = restoreOriginals(entities, loc[p].orig)
                                 /\ Unlock
                                 /\ Return(p, Err("badarg"))
                                 /\ hist' = [Touch(p, Stored(entities', heap')
                                                        # Stored(entities, heap))
                                               EXCEPT ![p].pathErr = TRUE]
                                 /\ UNCHANGED loc
                                 /\ UNCHANGED Rest
                       ELSE /\ heap' = r.h
                            /\ entities' = With(entities, entityToUpdate.id, entityToUpdate)
                            /\ loc' = [loc EXCEPT ![p].i = i + 1]
                            /\ hist' = Touch(p, Stored(entities', heap') # Stored(entities, heap))
                            /\ UNCHANGED <<mu, crashed, pc, ret>>
                            /\ UNCHANGED Rest

\* after the save: return the entities, or Lock, restore, Unlock
BulkUpdateMetadataSaved(p) ==
    /\ At(p, "BK_saved")
    /\ IF loc[p].saveErr
       THEN /\ LockFree
            /\ entities' = restoreOriginals(entities, loc[p].orig)
            /\ hist' = Touch(p, Stored(entities', heap) # Stored(entities, heap))
            /\ Return(p, Err("persistence"))
       ELSE /\ Return(p, Ok)
            /\ UNCHANGED <<entities, hist>>
    /\ UNCHANGED <<filePath, disk, relations, observations, heap, mu, crashed,
                   call, loc, nops>>

\* ----------------------------------------------------------------------
\* Query on the entity family, as far as the lock is concerned
\* ----------------------------------------------------------------------
BeginQuery(p) ==
    Enter(p, [NoCall EXCEPT !.op = "Query"], heap, "Q_rlock")

QueryRLock(p) ==
    /\ At(p, "Q_rlock")
    /\ ~mu.w
    /\ mu' = [mu EXCEPT !.r = @ + 1]
    /\ loc' = [loc EXCEPT ![p].i = 1]
    /\ hist' = [hist EXCEPT ![p].overlap =
                   {hist[q].serial : q \in {o \in Procs \ {p} : pc[o] # "idle"}}]
    /\ Goto(p, "Q_scan")
    /\ UNCHANGED <<filePath, disk, entities, relations, observations, heap, crashed,
                   call, ret, nops>>

\* `for _, entity := range m.graph.Entities`: one record read per step; the
\* return runs the deferred RUnlock
QueryScan(p) ==
    /\ At(p, "Q_scan")
    /\ LET i == loc[p].i
       IN IF i > Len(EntityIdSeq)
          THEN /\ mu' = [mu EXCEPT !.r = @ - 1]
               /\ Return(p, Ok)
               /\ UNCHANGED loc
          ELSE /\ loc' = [loc EXCEPT ![p].i = i + 1,
                                     ![p].seen = IF EntityIdSeq[i] \in DOMAIN entities
                                                 THEN With(@, EntityIdSeq[i],
                                                           EntityValue(heap, entities[EntityIdSeq[i]]))
                                                 ELSE @]
               /\ UNCHANGED <<mu, pc, ret>>
    /\ UNCHANGED <<filePath, disk, entities, relations, observations, heap, crashed,
                   call, hist, nops>>

\* ----------------------------------------------------------------------
\* ReadGraph: RLock, `return m.graph`, the deferred RUnlock
\* ----------------------------------------------------------------------
BeginReadGraph(p) ==
    Enter(p, [NoCall EXCEPT !.op = "ReadGraph"], heap, "RG_body")

\* the struct is copied, its three maps are not
ReadGraph(p) ==
    /\ At(p, "RG_body")
    /\ ~mu.w
    /\ loc' = [loc EXCEPT ![p].graph = [entities |-> Live, relations |-> Live,
                                        observations |-> Live]]
    /\ hist' = [hist EXCEPT ![p].returned = Current]
    /\ Return(p, Ok)
    /\ UNCHANGED <<filePath, disk, entities, relations, observations, heap, mu, crashed,
                   call, nops>>

\* what a caller reads in a KnowledgeGraph struct it holds
GraphValue(g) ==
    [entities |-> IF g.entities = Live THEN Current.entities ELSE g.entities.v,
     relations |-> IF g.relations = Live THEN relations ELSE g.relations.v,
     observations |-> IF g.observations = Live THEN observations ELSE g.observations.v]

\* ----------------------------------------------------------------------
\* Filters of the traversals. A filter is its list of conditions; a nil filter
\* and one without conditions both match everything.
\* ----------------------------------------------------------------------
getPropertyValue(item, property) ==
    IF property \in DOMAIN item
    THEN [found |-> TRUE, v |-> item[property]]
    ELSE [found |-> FALSE, v |-> ""]

RECURSIVE matchesConditions(_, _, _)
matchesConditions(item, conditions, i) ==
    IF i > Len(conditions) THEN TRUE
    ELSE LET actual == getPropertyValue(item, conditions[i].property)
         IN IF ~actual.found \/ actual.v # conditions[i].value THEN FALSE
            ELSE matchesConditions(item, conditions, i + 1)

matchesEntity(entity, filter) == Len(filter) = 0 \/ matchesConditions(entity, filter, 1)
matchesRelation(relation, filter) == Len(filter) = 0 \/ matchesConditions(relation, filter, 1)

\* ----------------------------------------------------------------------
\* Neighbours: the entities at the other end of a relation from or to the
\* current one, as the keys of the `neighbors` map
\* ----------------------------------------------------------------------
\* neighbours by outgoing relations only
DefaultNeighborFuncOutgoing(ents, rels, current) ==
    {rels[x].target : x \in {y \in DOMAIN rels : /\ rels[y].source = current
                                                   /\ rels[y].target \in DOMAIN ents}}

DefaultNeighborFunc(ents, rels, current) ==
    {rels[x].target : x \in {y \in DOMAIN rels : /\ rels[y].source = current
                                                   /\ rels[y].target \in DOMAIN ents}}
    \cup
    {rels[x].source : x \in {y \in DOMAIN rels : /\ rels[y].target = current
                                                   /\ rels[y].source \in DOMAIN ents}}

\* a neighborFn that applies the relation filter in every search
neighborFnFiltering(c, ents, rels, current) ==
    DefaultNeighborFunc(ents, [x \in {y \in DOMAIN rels :
                                        matchesRelation(rels[y], c.relationFilter)}
                                 |-> rels[x]], current)

\* the neighborFn of Traverse: DefaultNeighborFunc over the relations that
\* match the relation filter, when there is one; ExtractSubgraph passes nil
neighborFn(c, ents, rels, current) ==
    IF c.op = "Traverse" /\ c.relationFilter # <<>>
    THEN DefaultNeighborFunc(ents, [x \in {y \in DOMAIN rels :
                                             matchesRelation(rels[y], c.relationFilter)}
                                      |-> rels[x]], current)
    ELSE DefaultNeighborFunc(ents, rels, current)

\* a visitFn of Traverse that records and explores whatever it is given
visitFnUnfiltered(c, ents, res, id, depth) ==
    IF c.op = "Traverse"
    THEN [ok |-> TRUE,
          res |-> [res EXCEPT
                     !.visitedEntities = IF id \in DOMAIN res.visitedDepths
                                         THEN @ ELSE Append(@, id),
                     !.visitedDepths = With(@, id, depth)]]
    ELSE IF matchesEntity(ents[id], c.nodeFilter) /\ depth <= c.radius
         THEN [ok |-> TRUE, res |-> [res EXCEPT !.subgraphEntities = @ \cup {id}]]
         ELSE [ok |-> FALSE, res |-> res]

\* the visitFn of Traverse, and the bfsVisitFn of ExtractSubgraph
visitFn(c, ents, res, id, depth) ==
    IF c.op = "Traverse"
    THEN IF ~matchesEntity(ents[id], c.nodeFilter) THEN [ok |-> FALSE, res |-> res]
         ELSE [ok |-> TRUE,
               res |-> [res EXCEPT
                          !.visitedEntities = IF id \in DOMAIN res.visitedDepths
                                              THEN @ ELSE Append(@, id),
                          !.visitedDepths = With(@, id, depth)]]
    ELSE IF matchesEntity(ents[id], c.nodeFilter) /\ depth <= c.radius
         THEN [ok |-> TRUE, res |-> [res EXCEPT !.subgraphEntities = @ \cup {id}]]
         ELSE [ok |-> FALSE, res |-> res]

\* the maxDepth argument of BFS and DFS
maxDepthOf(c) == IF c.op = "Traverse" THEN c.maxDepth ELSE c.radius

Item(id, depth) == [id |-> id, depth |-> depth]
NoSearch == [queue |-> <<>>, stack |-> <<>>, visited |-> EmptyFcn, res |-> NoResult,
             err |-> FALSE]

\* ----------------------------------------------------------------------
\* BFS
\* ----------------------------------------------------------------------
\* the loop over the start nodes
RECURSIVE bfsStart(_, _, _, _)
bfsStart(c, ents, s, i) ==
    IF i > Len(c.startNodeIDs) THEN s
    ELSE LET id == c.startNodeIDs[i]
         IN IF id \in DOMAIN s.visited THEN bfsStart(c, ents, s, i + 1)
            ELSE IF id \notin DOMAIN ents THEN [s EXCEPT !.err = TRUE]
            ELSE LET v == visitFn(c, ents, s.res, id, 0)
                 IN IF ~v.ok THEN bfsStart(c, ents, [s EXCEPT !.res = v.res], i + 1)
                    ELSE bfsStart(c, ents,
                                  [s EXCEPT !.res = v.res,
                                            !.queue = Append(@, Item(id, 0)),
                                            !.visited = With(@, id, 0)], i + 1)

\* the loop over the neighbours of the node taken from the queue
RECURSIVE bfsNeighbors(_, _, _, _, _, _)
bfsNeighbors(c, ents, s, neighbors, nextDepth, i) ==
    IF i > Len(neighbors) THEN s
    ELSE IF neighbors[i] \in DOMAIN s.visited
         THEN bfsNeighbors(c, ents, s, neighbors, nextDepth, i + 1)
    ELSE LET v == visitFn(c, ents, s.res, neighbors[i], nextDepth)
         IN IF ~v.ok
            THEN bfsNeighbors(c, ents, [s EXCEPT !.res = v.res], neighbors, nextDepth, i + 1)
            ELSE bfsNeighbors(c, ents,
                              [s EXCEPT !.res = v.res,
                                        !.visited = With(@, neighbors[i], nextDepth),
                                        !.queue = Append(@, Item(neighbors[i], nextDepth))],
                              neighbors, nextDepth, i + 1)

\* ----------------------------------------------------------------------
\* DFS
\* ----------------------------------------------------------------------
\* visited whatever the depth
dfsSeenAtAnyDepth(visited, id, depth) == id \in DOMAIN visited

\* `alreadyVisited && existingDepth <= depth`
dfsSeen(visited, id, depth) == id \in DOMAIN visited /\ visited[id] <= depth

\* the loop over the start nodes, from the last to the first
RECURSIVE dfsStart(_, _, _, _)
dfsStart(c, ents, s, i) ==
    IF i < 1 THEN s
    ELSE LET id == c.startNodeIDs[i]
         IN IF id \notin DOMAIN ents THEN [s EXCEPT !.err = TRUE]
            ELSE LET v == visitFn(c, ents, s.res, id, 0)
                 IN IF ~v.ok THEN dfsStart(c, ents, [s EXCEPT !.res = v.res], i - 1)
                    ELSE dfsStart(c, ents,
                                  [s EXCEPT !.res = v.res,
                                            !.stack = Append(@, Item(id, 0))], i - 1)

\* the loop over the neighbours of the node popped, from the last to the first
RECURSIVE dfsNeighbors(_, _, _, _, _, _)
dfsNeighbors(c, ents, s, neighbors, nextDepth, i) ==
    IF i < 1 THEN s
    ELSE IF dfsSeen(s.visited, neighbors[i], nextDepth)
         THEN dfsNeighbors(c, ents, s, neighbors, nextDepth, i - 1)
    ELSE LET v == visitFn(c, ents, s.res, neighbors[i], nextDepth)
         IN IF ~v.ok
            THEN dfsNeighbors(c, ents, [s EXCEPT !.res = v.res], neighbors, nextDepth, i - 1)
            ELSE dfsNeighbors(c, ents,
                              [s EXCEPT !.res = v.res,
                                        !.stack = Append(@, Item(neighbors[i], nextDepth))],
                              neighbors, nextDepth, i - 1)

\* ----------------------------------------------------------------------
\* Traverse and GetSubgraph: RLock, the search, the deferred RUnlock. The
\* slice of neighbours comes out of a map, in any order.
\* ----------------------------------------------------------------------
Search(p) == [queue |-> loc[p].queue, stack |-> loc[p].stack, visited |-> loc[p].visited,
              res |-> loc[p].res, err |-> FALSE]
Keep(p, s) == loc' = [loc EXCEPT ![p].queue = s.queue, ![p].stack = s.stack,
                                 ![p].visited = s.visited, ![p].res = s.res]
Frame == UNCHANGED <<filePath, disk, entities, relations, observations, heap, crashed,
                     call, hist, nops>>

TraverseRLock(p) ==
    /\ At(p, "TR_rlock")
    /\ ~mu.w
    /\ IF call[p].algorithm \in {"BFS", ""}
       THEN mu' = [mu EXCEPT !.r = @ + 1] /\ Goto(p, "BFS_start") /\ UNCHANGED ret
       ELSE IF call[p].algorithm = "DFS"
       THEN mu' = [mu EXCEPT !.r = @ + 1] /\ Goto(p, "DFS_start") /\ UNCHANGED ret
       ELSE Return(p, Err("badarg")) /\ UNCHANGED mu
    /\ UNCHANGED loc
    /\ Frame

\* a GetSubgraph that lets a negative radius through
GetSubgraphRLockAnyRadius(p) ==
    /\ At(p, "SG_rlock")
    /\ ~mu.w
    /\ mu' = [mu EXCEPT !.r = @ + 1] /\ Goto(p, "BFS_start") /\ UNCHANGED ret
    /\ UNCHANGED loc
    /\ Frame

GetSubgraphRLock(p) ==
    /\ At(p, "SG_rlock")
    /\ ~mu.w
    /\ IF call[p].radius < 0
       THEN Return(p, Err("badarg")) /\ UNCHANGED mu
       ELSE mu' = [mu EXCEPT !.r = @ + 1] /\ Goto(p, "BFS_start") /\ UNCHANGED ret
    /\ UNCHANGED loc
    /\ Frame

BFSStart(p) ==
    /\ At(p, "BFS_start")
    /\ LET s == bfsStart(call[p], entities, NoSearch, 1)
       IN IF s.err
          THEN /\ mu' = [mu EXCEPT !.r = @ - 1]
               /\ Return(p, Err("notfound"))
               /\ UNCHANGED loc
          ELSE /\ Keep(p, s)
               /\ Goto(p, "BFS_loop")
               /\ UNCHANGED <<mu, ret>>
    /\ Frame

BFSStep(p) ==
    /\ At(p, "BFS_loop")
    /\ IF loc[p].queue = <<>>
       THEN /\ IF call[p].op = "Traverse"
               THEN mu' = [mu EXCEPT !.r = @ - 1] /\ Return(p, Ok)
               ELSE Goto(p, "SG_collect") /\ UNCHANGED <<mu, ret>>
            /\ UNCHANGED loc
       ELSE LET current == Head(loc[p].queue)
                nextDepth == current.depth + 1
                s == [Search(p) EXCEPT !.queue = Tail(@)]
            IN /\ IF maxDepthOf(call[p]) >= 0 /\ nextDepth > maxDepthOf(call[p])
                  THEN Keep(p, s)
                  ELSE \E neighbors \in Perms(neighborFn(call[p], entities, relations,
                                                         current.id)) :
                         Keep(p, bfsNeighbors(call[p], entities, s, neighbors, nextDepth, 1))
               /\ UNCHANGED <<mu, pc, ret>>
    /\ Frame

DFSStart(p) ==
    /\ At(p, "DFS_start")
    /\ LET s == dfsStart(call[p], entities, NoSearch, Len(call[p].startNodeIDs))
       IN IF s.err
          THEN /\ mu' = [mu EXCEPT !.r = @ - 1]
               /\ Return(p, Err("notfound"))
               /\ UNCHANGED loc
          ELSE /\ Keep(p, s)
               /\ Goto(p, "DFS_loop")
               /\ UNCHANGED <<mu, ret>>
    /\ Frame

\* a DFS loop that leaves an item it has already seen on the stack
DFSStepKeepingSeen(p) ==
    /\ At(p, "DFS_loop")
    /\ IF loc[p].stack = <<>>
       THEN /\ mu' = [mu EXCEPT !.r = @ - 1]
            /\ Return(p, Ok)
            /\ UNCHANGED loc
       ELSE LET n == Len(loc[p].stack)
                current == loc[p].stack[n]
                nextDepth == current.depth + 1
                popped == [Search(p) EXCEPT !.stack = SubSeq(@, 1, n - 1)]
                s == [popped EXCEPT !.visited = With(@, current.id, current.depth)]
            IN /\ IF dfsSeen(loc[p].visited, current.id, current.depth)
                  THEN Keep(p, Search(p))
                  ELSE IF maxDepthOf(call[p]) >= 0 /\ nextDepth > maxDepthOf(call[p])
                  THEN Keep(p, s)
                  ELSE \E neighbors \in Perms(neighborFn(call[p], entities, relations,
                                                         current.id)) :
                         Keep(p, dfsNeighbors(call[p], entities, s, neighbors, nextDepth,
                                              Len(neighbors)))
               /\ UNCHANGED <<mu, pc, ret>>
    /\ Frame

DFSStep(p) ==
    /\ At(p, "DFS_loop")
    /\ IF loc[p].stack = <<>>
       THEN /\ mu' = [mu EXCEPT !.r = @ - 1]
            /\ Return(p, Ok)
            /\ UNCHANGED loc
       ELSE LET n == Len(loc[p].stack)
                current == loc[p].stack[n]
                nextDepth == current.depth + 1
                popped == [Search(p) EXCEPT !.stack = SubSeq(@, 1, n - 1)]
                s == [popped EXCEPT !.visited = With(@, current.id, current.depth)]
            IN /\ IF dfsSeen(loc[p].visited, current.id, current.depth)
                  THEN Keep(p, popped)
                  ELSE IF maxDepthOf(call[p]) >= 0 /\ nextDepth > maxDepthOf(call[p])
                  THEN Keep(p, s)
                  ELSE \E neighbors \in Perms(neighborFn(call[p], entities, relations,
                                                         current.id)) :
                         Keep(p, dfsNeighbors(call[p], entities, s, neighbors, nextDepth,
                                              Len(neighbors)))
               /\ UNCHANGED <<mu, pc, ret>>
    /\ Frame

\* a relation is in the subgraph if its source or its target is
DefaultRelationFilterEitherEnd(relation, entitiesInSubgraph) ==
    relation.source \in entitiesInSubgraph \/ relation.target \in entitiesInSubgraph

DefaultRelationFilter(relation, entitiesInSubgraph) ==
    relation.source \in entitiesInSubgraph /\ relation.target \in entitiesInSubgraph

\* the relationFilterFn GetSubgraph builds
relationFilterFn(c, relation, entitiesInSubgraph) ==
    IF c.relationFilter # <<>>
    THEN IF ~DefaultRelationFilter(relation, entitiesInSubgraph) THEN FALSE
         ELSE matchesRelation(relation, c.relationFilter)
    ELSE DefaultRelationFilter(relation, entitiesInSubgraph)

\* ExtractSubgraph after its BFS: the loop over all the relations
SubgraphCollect(p) ==
    /\ At(p, "SG_collect")
    /\ loc' = [loc EXCEPT ![p].res.subgraphRelations =
                 [id \in {x \in DOMAIN relations :
                            relationFilterFn(call[p], relations[x],
                                             loc[p].res.subgraphEntities)}
                    |-> relations[id]]]
    /\ mu' = [mu EXCEPT !.r = @ - 1]
    /\ Return(p, Ok)
    /\ Frame

\* ----------------------------------------------------------------------
\* FindPaths: RLock, the queue of partial paths, the deferred RUnlock. A Path
\* is [Entity, Relation, Entity, ...]; its items are given by kind and id.
\* ----------------------------------------------------------------------
Ent(id) == [kind |-> "entity", id |-> id]
Rel(id) == [kind |-> "relation", id |-> id]

\* the filterFn the manager builds: nil without filters
filterFn(c, item) ==
    IF c.nodeFilter = <<>> /\ c.relationFilter = <<>> THEN TRUE
    ELSE IF item.kind = "entity" THEN matchesEntity(entities[item.id], c.nodeFilter)
    ELSE matchesRelation(relations[item.id], c.relationFilter)

\* the loop over the outgoing relations with no test for a cycle
RECURSIVE findPathsExtendRevisiting(_, _, _, _, _)
findPathsExtendRevisiting(c, queue, item, rels, i) ==
    IF i > Len(rels) THEN queue
    ELSE LET rel == relations[rels[i]]
         IN IF rel.target \notin DOMAIN entities
            THEN findPathsExtendRevisiting(c, queue, item, rels, i + 1)
            ELSE IF ~filterFn(c, Rel(rels[i])) \/ ~filterFn(c, Ent(rel.target))
            THEN findPathsExtendRevisiting(c, queue, item, rels, i + 1)
            ELSE findPathsExtendRevisiting(c,
                     Append(queue, [currentPath |-> item.currentPath
                                                      \o <<Rel(rels[i]), Ent(rel.target)>>,
                                    visited |-> item.visited \cup {rel.target}]),
                     item, rels, i + 1)

\* the loop over the outgoing relations with one visited map for all the
\* paths it extends, not a copy for each
RECURSIVE findPathsExtendSharing(_, _, _, _, _)
findPathsExtendSharing(c, queue, item, rels, i) ==
    IF i > Len(rels) THEN queue
    ELSE LET rel == relations[rels[i]]
         IN IF rel.target \notin DOMAIN entities \/ rel.target \in item.visited
            THEN findPathsExtendSharing(c, queue, item, rels, i + 1)
            ELSE IF ~filterFn(c, Rel(rels[i])) \/ ~filterFn(c, Ent(rel.target))
            THEN findPathsExtendSharing(c, queue, item, rels, i + 1)
            ELSE findPathsExtendSharing(c,
                     Append(queue, [currentPath |-> item.currentPath
                                                      \o <<Rel(rels[i]), Ent(rel.target)>>,
                                    visited |-> item.visited \cup {rel.target}]),
                     [item EXCEPT !.visited = @ \cup {rel.target}], rels, i + 1)

\* the loop over the outgoing relations of the last node of a path
RECURSIVE findPathsExtend(_, _, _, _, _)
findPathsExtend(c, queue, item, rels, i) ==
    IF i > Len(rels) THEN queue
    ELSE LET rel == relations[rels[i]]
         IN IF rel.target \notin DOMAIN entities \/ rel.target \in item.visited
            THEN findPathsExtend(c, queue, item, rels, i + 1)
            ELSE IF ~filterFn(c, Rel(rels[i])) \/ ~filterFn(c, Ent(rel.target))
            THEN findPathsExtend(c, queue, item, rels, i + 1)
            ELSE findPathsExtend(c,
                     Append(queue, [currentPath |-> item.currentPath
                                                      \o <<Rel(rels[i]), Ent(rel.target)>>,
                                    visited |-> item.visited \cup {rel.target}]),
                     item, rels, i + 1)

\* from RLock to the first item in the queue, or to an early return
FindPathsStart(p) ==
    /\ At(p, "FP_rlock")
    /\ ~mu.w
    /\ LET c == call[p]
       IN IF c.startNodeID \notin DOMAIN entities
          THEN Return(p, Err("notfound")) /\ UNCHANGED <<mu, loc>>
          ELSE IF ~filterFn(c, Ent(c.startNodeID))
          THEN Return(p, Ok) /\ UNCHANGED <<mu, loc>>
          ELSE /\ mu' = [mu EXCEPT !.r = @ + 1]
               /\ loc' = [loc EXCEPT ![p].queue =
                            <<[currentPath |-> <<Ent(c.startNodeID)>>,
                               visited |-> {c.startNodeID}]>>]
               /\ Goto(p, "FP_loop")
               /\ UNCHANGED ret
    /\ Frame

\* one turn of the loop over the queue; the relations of a node come out of a
\* map, in any order
FindPathsStep(p) ==
    /\ At(p, "FP_loop")
    /\ IF loc[p].queue = <<>>
       THEN /\ mu' = [mu EXCEPT !.r = @ - 1]
            /\ Return(p, Ok)
            /\ UNCHANGED loc
       ELSE LET c == call[p]
                item == Head(loc[p].queue)
                rest == Tail(loc[p].queue)
                lastNode == item.currentPath[Len(item.currentPath)]
                currentLength == Len(item.currentPath) \div 2
            IN /\ IF lastNode.id = c.endNodeID
                  THEN loc' = [loc EXCEPT ![p].queue = rest,
                                          ![p].res.paths = Append(@, item.currentPath)]
                  ELSE IF c.maxLength >= 0 /\ currentLength >= c.maxLength
                  THEN loc' = [loc EXCEPT ![p].queue = rest]
                  ELSE \E rels \in Perms({x \in DOMAIN relations :
                                            relations[x].source = lastNode.id}) :
                         loc' = [loc EXCEPT ![p].queue =
                                   findPathsExtend(c, rest, item, rels, 1)]
               /\ UNCHANGED <<mu, pc, ret>>
    /\ Frame

\* ----------------------------------------------------------------------
\* GetEntityTimeline. A time.Time is a number, the zero time is 0.
\* ----------------------------------------------------------------------

\* the filters of the loop, with a window that leaves out its two bounds
timelineKeepsInside(obs, c) ==
    /\ obs.entity_id = c.entityID
    /\ ~(c.startTime # 0 /\ obs.timestamp <= c.startTime)
    /\ ~(c.endTime # 0 /\ obs.timestamp >= c.endTime)
    /\ ~(c.observationType # "" /\ obs.type # c.observationType)
    /\ Len(c.tags) > 0 => \E i \in 1..Len(c.tags) : c.tags[i] \in Range(obs.tags)

\* the filters of the loop over the observations: entity, window, type, tags
timelineKeeps(obs, c) ==
    /\ obs.entity_id = c.entityID
    /\ ~(c.startTime # 0 /\ obs.timestamp < c.startTime)
    /\ ~(c.endTime # 0 /\ obs.timestamp > c.endTime)
    /\ ~(c.observationType # "" /\ obs.type # c.observationType)
    /\ Len(c.tags) > 0 => \E i \in 1..Len(c.tags) : c.tags[i] \in Range(obs.tags)

TimelineRLock(p) ==
    /\ At(p, "TL_rlock")
    /\ ~mu.w
    /\ IF call[p].entityID \notin DOMAIN entities
       THEN Return(p, Err("notfound")) /\ UNCHANGED mu
       ELSE mu' = [mu EXCEPT !.r = @ + 1] /\ Goto(p, "TL_scan") /\ UNCHANGED ret
    /\ UNCHANGED loc
    /\ Frame

\* the loop and the sort: the map gives the observations in any order and
\* sort.Slice is not stable, so those of one timestamp come in any order
TimelineScan(p) ==
    /\ At(p, "TL_scan")
    /\ \E order \in Perms({id \in DOMAIN observations :
                             timelineKeeps(observations[id], call[p])}) :
         /\ \A i, j \in 1..Len(order) :
              i < j => ~(observations[order[j]].timestamp < observations[order[i]].timestamp)
         /\ loc' = [loc EXCEPT ![p].res.timeline =
                      [i \in 1..Len(order) |-> observations[order[i]]]]
    /\ mu' = [mu EXCEPT !.r = @ - 1]
    /\ Return(p, Ok)
    /\ Frame

\* ----------------------------------------------------------------------
\* The query engine. A string that is compared is the sequence of its bytes;
\* a value is a number, a string, nil or a slice of values.
\* ----------------------------------------------------------------------
Text(s) == [tag |-> "str", v |-> s]
Null == [tag |-> "null", v |-> 0]
List(l) == [tag |-> "list", v |-> l]

\* the bytes of the strings the records and the inputs are made of
Bytes(s) ==
    CASE s = "" -> <<>>
      [] s = "A" -> <<65>>
      [] s = "B" -> <<66>>
      [] s = "k" -> <<107>>
      [] s = "j" -> <<106>>
      [] s = "n" -> <<110>>
      [] s = "e1" -> <<101, 49>>
      [] s = "e2" -> <<101, 50>>
      [] s = "u1" -> <<117, 49>>
      [] s = "r1" -> <<114, 49>>
      [] s = "r2" -> <<114, 50>>
      [] s = "r3" -> <<114, 51>>
      [] s = "r4" -> <<114, 52>>

\* s < t on Go strings
stringLess(s, t) ==
    \E k \in 0..Len(s) :
        /\ k <= Len(t)
        /\ SubSeq(s, 1, k) = SubSeq(t, 1, k)
        /\ IF k = Len(s) THEN k < Len(t) ELSE k < Len(t) /\ s[k + 1] < t[k + 1]

\* fmt.Sprintf("%v", v)
RECURSIVE Digits(_)
Digits(n) == IF n < 10 THEN <<48 + n>> ELSE Digits(n \div 10) \o <<48 + (n % 10)>>

RECURSIVE Sprintf(_), SprintfJoin(_, _)
Sprintf(val) ==
    CASE val.tag = "num" -> Digits(val.v)
      [] val.tag = "str" -> val.v
      [] val.tag = "null" -> <<60, 110, 105, 108, 62>>
      [] val.tag = "list" -> <<91>> \o SprintfJoin(val.v, 1) \o <<93>>
SprintfJoin(l, i) ==
    IF i > Len(l) THEN <<>>
    ELSE (IF i > 1 THEN <<32>> ELSE <<>>) \o Sprintf(l[i]) \o SprintfJoin(l, i + 1)

\* no field taken for a metadata field
metadataKeyNone(field) == ""

\* "metadata.<key>": strings.HasPrefix and strings.TrimPrefix on the field
\* names of the inputs; "" for a field without the prefix
metadataKey(field) ==
    CASE field = "metadata.a" -> "a"
      [] field = "metadata.b" -> "b"
      [] OTHER -> ""

extractValue(h, item, field) ==
    LET found(val) == [err |-> FALSE, v |-> val]
        failed == [err |-> TRUE, v |-> Null]
    IN IF field \in {"id", "type"} THEN found(Text(Bytes(item[field])))
       ELSE IF field \in {"name", "description"} /\ field \in DOMAIN item
       THEN found(Text([i \in 1..Len(item[field]) |-> Bytes(item[field][i])[1]]))
       ELSE IF field \in {"source", "target"} /\ field \in DOMAIN item
       THEN found(Text(Bytes(item[field])))
       ELSE IF metadataKey(field) # ""
       THEN IF /\ "meta" \in DOMAIN item
               /\ item.meta # NilMap
               /\ metadataKey(field) \in DOMAIN h[item.meta]
            THEN found(h[item.meta][metadataKey(field)])
            ELSE failed
       ELSE failed

\* of two values that are not nil; reflect.Value.Type panics on a nil one
compareValues(actual, expected) ==
    IF actual.tag = expected.tag THEN actual = expected
    ELSE Sprintf(actual) = Sprintf(expected)

Operators == {"eq", "neq", "in", "nin", "contains", "gt", "gte", "lt", "lte"}

performComparison(actual, expected, operator) ==
    LET ordered(lt, eq) ==
            CASE operator = "eq" -> [match |-> eq, err |-> FALSE]
              [] operator = "neq" -> [match |-> ~eq, err |-> FALSE]
              [] operator = "gt" -> [match |-> ~lt /\ ~eq, err |-> FALSE]
              [] operator = "gte" -> [match |-> ~lt, err |-> FALSE]
              [] operator = "lt" -> [match |-> lt, err |-> FALSE]
              [] operator = "lte" -> [match |-> lt \/ eq, err |-> FALSE]
              [] OTHER -> [match |-> FALSE, err |-> TRUE]
    IN IF actual.tag = "num" /\ expected.tag = "num"
       THEN ordered(actual.v < expected.v, actual.v = expected.v)
       ELSE IF actual.tag = "str" /\ expected.tag = "str"
       THEN ordered(stringLess(actual.v, expected.v), actual.v = expected.v)
       ELSE CASE operator = "eq" -> [match |-> compareValues(actual, expected), err |-> FALSE]
              [] operator = "neq" -> [match |-> ~compareValues(actual, expected), err |-> FALSE]
              [] OTHER -> [match |-> FALSE, err |-> TRUE]

\* the scan of the slice of an `in` or `nin` filter for a value equal to
\* `actual`: "equal", "none", or "panic" when compareValues meets a nil first
scanSlice(actual, l) ==
    LET hits == {i \in 1..Len(l) : l[i] = Null \/ compareValues(actual, l[i])}
    IN IF hits = {} THEN "none"
       ELSE IF l[CHOOSE i \in hits : \A k \in hits : i <= k] = Null THEN "panic"
       ELSE "equal"

\* matchesFilter of the query engine: match, or an error, or a panic
matchesQueryFilter(h, item, filter) ==
    LET value == extractValue(h, item, filter.field)
        yes == [match |-> TRUE, err |-> FALSE, panic |-> FALSE]
        no == [match |-> FALSE, err |-> FALSE, panic |-> FALSE]
        failed == [match |-> FALSE, err |-> TRUE, panic |-> FALSE]
        is(b) == IF b THEN yes ELSE no
        of(r) == [match |-> r.match, err |-> r.err, panic |-> FALSE]
        hasNil(l) == \E i \in 1..Len(l) : l[i] = Null
        scan(l, found) ==
            LET r == scanSlice(value.v, l)
            IN IF r = "panic" THEN [match |-> FALSE, err |-> FALSE, panic |-> TRUE]
               ELSE is((r = "equal") = found)
    IN IF value.err
       THEN IF metadataKey(filter.field) # "" THEN no ELSE failed
       ELSE IF value.v = Null
       THEN CASE filter.operator = "eq" -> is(filter.value = Null)
              [] filter.operator = "neq" -> is(filter.value # Null)
              [] filter.operator = "in" ->
                    IF filter.value.tag # "list" THEN failed ELSE is(hasNil(filter.value.v))
              [] filter.operator = "nin" ->
                    IF filter.value.tag # "list" THEN failed ELSE is(~hasNil(filter.value.v))
              [] OTHER -> no
       ELSE IF filter.value = Null
       THEN CASE filter.operator = "eq" -> no
              [] filter.operator = "neq" -> yes
              [] OTHER -> failed
       ELSE CASE filter.operator \in {"eq", "neq", "gt", "gte", "lt", "lte"} ->
                    of(performComparison(value.v, filter.value, filter.operator))
              [] filter.operator = "in" ->
                    IF filter.value.tag # "list" THEN failed ELSE scan(filter.value.v, TRUE)
              [] filter.operator = "nin" ->
                    IF filter.value.tag # "list" THEN failed ELSE scan(filter.value.v, FALSE)
              [] filter.operator = "contains" ->
                    IF value.v.tag # "str" \/ filter.value.tag # "str" THEN failed
                    ELSE is(Contains(value.v.v, filter.value.v))
              [] OTHER -> failed

\* applyFilters: the records that match every filter, or the first error;
\* `evaluated` collects the filters that were evaluated against a record
RECURSIVE applyFilters(_, _, _, _, _, _, _)
applyFilters(h, items, filters, i, j, kept, evaluated) ==
    IF Len(filters) = 0
    THEN [items |-> items, err |-> FALSE, panic |-> FALSE, evaluated |-> {}]
    ELSE IF i > Len(items)
    THEN [items |-> kept, err |-> FALSE, panic |-> FALSE, evaluated |-> evaluated]
    ELSE IF j > Len(filters)
    THEN applyFilters(h, items, filters, i + 1, 1, Append(kept, items[i]), evaluated)
    ELSE LET m == matchesQueryFilter(h, items[i], filters[j])
         IN IF m.err \/ m.panic
            THEN [items |-> <<>>, err |-> m.err, panic |-> m.panic,
                  evaluated |-> evaluated \cup {j}]
            ELSE IF ~m.match
            THEN applyFilters(h, items, filters, i + 1, 1, kept, evaluated \cup {j})
            ELSE applyFilters(h, items, filters, i, j + 1, kept, evaluated \cup {j})

\* strings.ToLower on the sort orders of the inputs
ToLower(s) == IF s = "DESC" THEN "desc" ELSE s

\* the less function of applySorting on two records
sortLess(h, a, b, sortBy, sortOrder) ==
    LET order == IF ToLower(sortOrder) = "desc" THEN "desc" ELSE "asc"
        valI == extractValue(h, a, sortBy)
        valJ == extractValue(h, b, sortBy)
        by(lt, gt) == IF order = "asc" THEN lt ELSE gt
    IN IF valI.err /\ ~valJ.err THEN order = "asc"
       ELSE IF ~valI.err /\ valJ.err THEN order = "desc"
       ELSE IF valI.err /\ valJ.err THEN FALSE
       ELSE IF valI.v.tag = "num" /\ valJ.v.tag = "num"
       THEN by(valI.v.v < valJ.v.v, valI.v.v > valJ.v.v)
       ELSE IF valI.v.tag = "str" /\ valJ.v.tag = "str"
       THEN by(stringLess(valI.v.v, valJ.v.v), stringLess(valJ.v.v, valI.v.v))
       ELSE by(stringLess(Sprintf(valI.v), Sprintf(valJ.v)),
               stringLess(Sprintf(valJ.v), Sprintf(valI.v)))

\* sort.SliceStable over the less function of applySorting. Positions count
\* from 0 as in Go; cx holds the heap, the sort field and the sort order.
lessAt(cx, s, i, j) == sortLess(cx.h, s[i + 1], s[j + 1], cx.sortBy, cx.sortOrder)

\* a run of swaps of neighbours that takes the item at `from` to `to`
moveAt(s, from, to) ==
    [k \in 1..Len(s) |->
        IF k - 1 = to THEN s[from + 1]
        ELSE IF from <= k - 1 /\ k - 1 < to THEN s[k + 1]
        ELSE IF to < k - 1 /\ k - 1 <= from THEN s[k - 1]
        ELSE s[k]]

\* insertionSort(data, a, b): item i is swapped down to the first place j
\* where j is a or the item is not less than the one at j-1
insertionSort(cx, s, a, b) ==
    LET RECURSIVE outer(_, _)
        stop(t, i) == Max({j \in a..i : j = a \/ ~lessAt(cx, t, i, j - 1)})
        outer(t, i) == IF i < b THEN outer(moveAt(t, i, stop(t, i)), i + 1) ELSE t
    IN outer(s, a + 1)

swapRange(s, a, b, n) ==
    [k \in 1..Len(s) |-> IF a < k /\ k <= a + n THEN s[k - a + b]
                         ELSE IF b < k /\ k <= b + n THEN s[k - b + a]
                         ELSE s[k]]

rotate(s, a, m, b) ==
    LET RECURSIVE loop(_, _, _)
        loop(t, i, j) ==
            IF i = j THEN swapRange(t, m - i, m, i)
            ELSE IF i > j THEN loop(swapRange(t, m - i, m, j), i - j, j)
            ELSE loop(swapRange(t, m - i, m + j - i, i), i, j - i)
    IN loop(s, m - a, b - m)

\* m-a == 1: the place of data[a] among data[m:b], by binary search
RECURSIVE symFirst(_, _, _, _, _)
symFirst(cx, s, a, i, j) ==
    IF i < j
    THEN IF lessAt(cx, s, (i + j) \div 2, a)
         THEN symFirst(cx, s, a, ((i + j) \div 2) + 1, j)
         ELSE symFirst(cx, s, a, i, (i + j) \div 2)
    ELSE i

\* b-m == 1: the place of data[m] among data[a:m], by binary search
RECURSIVE symLast(_, _, _, _, _)
symLast(cx, s, m, i, j) ==
    IF i < j
    THEN IF ~lessAt(cx, s, m, (i + j) \div 2)
         THEN symLast(cx, s, m, ((i + j) \div 2) + 1, j)
         ELSE symLast(cx, s, m, i, (i + j) \div 2)
    ELSE i

\* the binary search `for start < r` of the general case
RECURSIVE symCut(_, _, _, _, _)
symCut(cx, s, start, r, p) ==
    IF start < r
    THEN IF ~lessAt(cx, s, p - ((start + r) \div 2), (start + r) \div 2)
         THEN symCut(cx, s, ((start + r) \div 2) + 1, r, p)
         ELSE symCut(cx, s, start, (start + r) \div 2, p)
    ELSE start

\* the two recursive calls of symMerge after the rotation about `start`
RECURSIVE symMerge(_, _, _, _, _), symHalves(_, _, _, _, _, _)
symHalves(cx, s, a, start, m, b) ==
    LET mid == (a + b) \div 2
        end == mid + m - start
        left == IF a < start /\ start < mid THEN symMerge(cx, s, a, start, mid) ELSE s
    IN IF mid < end /\ end < b THEN symMerge(cx, left, mid, end, b) ELSE left

symMerge(cx, s, a, m, b) ==
    IF m - a = 1 THEN moveAt(s, a, symFirst(cx, s, a, m, b) - 1)
    ELSE IF b - m = 1 THEN moveAt(s, m, symLast(cx, s, m, a, m))
    ELSE LET mid == (a + b) \div 2
             n == mid + m
             start == IF m > mid THEN symCut(cx, s, n - b, mid, n - 1)
                      ELSE symCut(cx, s, a, m, n - 1)
             end == n - start
         IN symHalves(cx, IF start < m /\ m < end THEN rotate(s, start, m, end) ELSE s,
                      a, start, m, b)

blockSize == 20

\* stable(data, n): insertion sort of blocks of blockSize items, then merges of
\* neighbouring blocks of doubling size
stable(cx, s) ==
    LET n == Len(s)
        RECURSIVE blocks(_, _, _), merges(_, _, _, _), passes(_, _)
        blocks(t, a, b) == IF b <= n THEN blocks(insertionSort(cx, t, a, b), b, b + blockSize)
                           ELSE insertionSort(cx, t, a, n)
        merges(t, size, a, b) ==
            IF b <= n THEN merges(symMerge(cx, t, a, a + size, b), size, b, b + 2 * size)
            ELSE IF a + size < n THEN symMerge(cx, t, a, a + size, n)
            ELSE t
        passes(t, size) == IF size < n THEN passes(merges(t, size, 0, 2 * size), 2 * size)
                           ELSE t
    IN passes(blocks(s, 0, blockSize), blockSize)

applySorting(h, items, sortBy, sortOrder) ==
    IF Len(items) = 0 THEN items
    ELSE stable([h |-> h, sortBy |-> sortBy, sortOrder |-> sortOrder], items)

DefaultLimit == 100

\* an applyPagination that starts one item late
applyPaginationOffByOne(items, limit, offset) ==
    LET lim == IF limit <= 0 THEN DefaultLimit ELSE limit
        off == IF offset < 0 THEN 0 ELSE offset
        total == Len(items)
        end == IF off + lim > total THEN total ELSE off + lim
    IN IF off >= total THEN <<>> ELSE SubSeq(items, off + 2, end)

applyPagination(items, limit, offset) ==
    LET lim == IF limit <= 0 THEN DefaultLimit ELSE limit
        off == IF offset < 0 THEN 0 ELSE offset
        total == Len(items)
        end == IF off + lim > total THEN total ELSE off + lim
    IN IF off >= total THEN <<>> ELSE SubSeq(items, off + 1, end)

\* Query, from RLock to the candidates: the records of the family as the map
\* gives them
QueryCandidates(p) ==
    /\ At(p, "QY_rlock")
    /\ ~mu.w
    /\ IF call[p].targetType \notin {"entity", "relation"}
       THEN Return(p, Err("badarg")) /\ UNCHANGED <<mu, loc>>
       ELSE LET coll == IF call[p].targetType = "entity" THEN entities ELSE relations
            IN /\ \E order \in Perms(DOMAIN coll) :
                    loc' = [loc EXCEPT ![p].candidates =
                              [i \in 1..Len(order) |-> coll[order[i]]]]
               /\ mu' = [mu EXCEPT !.r = @ + 1]
               /\ Goto(p, "QY_run")
               /\ UNCHANGED ret
    /\ Frame

\* Query, from the filters to the output and the deferred RUnlock; nothing
\* recovers from a panic, which ends the process
QueryRun(p) ==
    /\ At(p, "QY_run")
    /\ LET c == call[p]
           filteredResults == applyFilters(heap, loc[p].candidates, c.filters, 1, 1, <<>>, {})
           sorted == IF c.sortBy # ""
                     THEN applySorting(heap, filteredResults.items, c.sortBy, c.sortOrder)
                     ELSE filteredResults.items
       IN IF filteredResults.panic
          THEN crashed' = TRUE /\ UNCHANGED <<mu, pc, ret, loc>>
          ELSE IF filteredResults.err
          THEN /\ Return(p, Err("filter"))
               /\ loc' = [loc EXCEPT ![p].evaluated = filteredResults.evaluated]
               /\ mu' = [mu EXCEPT !.r = @ - 1]
               /\ crashed' = crashed
          ELSE /\ Return(p, Ok)
               /\ mu' = [mu EXCEPT !.r = @ - 1]
               /\ crashed' = crashed
               /\ loc' = [loc EXCEPT
                     ![p].evaluated = filteredResults.evaluated,
                     ![p].sorted = sorted,
                     ![p].res.results = applyPagination(sorted, c.limit, c.offset),
                     ![p].res.total = Len(filteredResults.items),
                     ![p].res.limit = IF c.limit <= 0 THEN DefaultLimit ELSE c.limit,
                     ![p].res.offset = IF c.offset < 0 THEN 0 ELSE c.offset]
    /\ UNCHANGED <<filePath, disk, entities, relations, observations, heap,
                   call, hist, nops>>

\* applySorting on its own: the items are in loc.candidates
SortApply(p) ==
    /\ At(p, "SO_sort")
    /\ loc' = [loc EXCEPT ![p].sorted =
                 applySorting(heap, loc[p].candidates, call[p].sortBy, call[p].sortOrder)]
    /\ Return(p, Ok)
    /\ UNCHANGED mu
    /\ Frame

\* ----------------------------------------------------------------------
\* setNestedValue on its own
\* ----------------------------------------------------------------------
\* one call of setNestedValue on the metadata map of e1, for the one path of
\* the update
SetNestedValueApply(p) ==
    /\ At(p, "SN_apply")
    /\ LET path == CHOOSE x \in DOMAIN call[p].updates : TRUE
           r == setNestedValue(heap, entities["e1"].meta, path, call[p].updates[path],
                               call[p].operation)
       IN /\ heap' = r.h
          /\ hist' = [hist EXCEPT ![p].pathErr = r.err]
          /\ Return(p, IF r.err THEN Err("badarg") ELSE Ok)
    /\ UNCHANGED <<filePath, disk, entities, relations, observations, mu, crashed,
                   call, loc, nops>>

\* ----------------------------------------------------------------------
\* The end of a call
\* ----------------------------------------------------------------------
\* Maps that nothing refers to are garbage and addresses are not observable:
\* between calls the heap holds the maps the entities reach, numbered in the
\* order they are met.
RECURSIVE reach(_, _, _), reachKeys(_, _, _, _), reachEntities(_, _, _, _)
reach(h, order, a) ==
    IF a \in Range(order) THEN order ELSE reachKeys(h, Append(order, a), a, 1)
reachKeys(h, order, a, i) ==
    IF i > Len(KeySeq) THEN order
    ELSE IF KeySeq[i] \in DOMAIN h[a] /\ h[a][KeySeq[i]].tag = "map"
         THEN reachKeys(h, reach(h, order, h[a][KeySeq[i]].v), a, i + 1)
         ELSE reachKeys(h, order, a, i + 1)
reachEntities(h, ents, order, i) ==
    IF i > Len(EntityIdSeq) THEN order
    ELSE IF EntityIdSeq[i] \in DOMAIN ents /\ ents[EntityIdSeq[i]].meta # NilMap
         THEN reachEntities(h, ents, reach(h, order, ents[EntityIdSeq[i]].meta), i + 1)
         ELSE reachEntities(h, ents, order, i + 1)

collect(h, ents) ==
    LET order == reachEntities(h, ents, <<>>, 1)
        at(a) == CHOOSE i \in 1..Len(order) : order[i] = a
        move(val) == IF val.tag = "map" THEN Ref(at(val.v)) ELSE val
    IN [h |-> [i \in 1..Len(order) |-> [k \in DOMAIN h[order[i]] |-> move(h[order[i]][k])]],
        ents |-> [id \in DOMAIN ents |->
                    [ents[id] EXCEPT !.meta = IF @ = NilMap THEN NilMap ELSE at(@)]]]

\* the caller has its result and is ready for another call
Finish(p) ==
    /\ At(p, "done")
    /\ Goto(p, "idle")
    /\ call' = [call EXCEPT ![p] = NoCall]
    /\ loc' = [loc EXCEPT ![p] = NoLoc]
    /\ ret' = [ret EXCEPT ![p] = NoRet]
    /\ hist' = [hist EXCEPT ![p] = NoHist]
    /\ IF \A q \in Procs \ {p} : pc[q] = "idle"
       THEN LET c == collect(heap, entities) IN heap' = c.h /\ entities' = c.ents
       ELSE UNCHANGED <<heap, entities>>
    /\ UNCHANGED <<filePath, disk, relations, observations, mu, crashed, nops>>

\* ----------------------------------------------------------------------
\* Inputs
\* ----------------------------------------------------------------------
Str(c) == <<c>>

EntityIn(id, type, name, description, metadata) ==
    [id |-> id, type |-> type, name |-> name, description |-> description,
     metadata |-> metadata]

ObjA1 == Obj([k \in {"a"} |-> Num(1)])
ObjA2 == Obj([k \in {"a"} |-> Num(2)])
ObjB2 == Obj([k \in {"b"} |-> Num(2)])
ObjAB1 == Obj([k \in {"a"} |-> Obj([j \in {"b"} |-> Num(1)])])

\* documents a store may be opened on
Doc1 ==
    [entities |-> [id \in {"e1"} |->
        [type |-> "A", name |-> <<"x", "y">>, description |-> <<>>, metadata |-> ObjA1]],
     relations |-> EmptyFcn, observations |-> EmptyFcn]
Doc2 ==
    [entities |-> [id \in {"e1", "e2"} |->
        IF id = "e1"
        THEN [type |-> "A", name |-> <<"x", "y">>, description |-> <<>>, metadata |-> ObjAB1]
        ELSE [type |-> "A", name |-> <<"y">>, description |-> <<>>, metadata |-> ObjA1]],
     relations |-> [id \in {"r1"} |-> [id |-> "r1", type |-> "k", source |-> "e1", target |-> "e2"]],
     observations |-> [id \in {"o1"} |-> [id |-> "o1", entity_id |-> "e1", timestamp |-> 1,
                                           type |-> "note", tags |-> <<>>]]]

InitFiles == {Missing, Corrupt, File(Doc1), File(Doc2)}

Init ==
    /\ filePath \in {"", "kg.json"}
    /\ disk \in IF filePath = "" THEN {Missing} ELSE InitFiles
    /\ LET g == loadGraph(filePath, disk)
       IN /\ entities = g.ents
          /\ relations = g.rels
          /\ observations = g.obs
          /\ heap = g.h
    /\ mu = [w |-> FALSE, r |-> 0]
    /\ crashed = FALSE
    /\ pc = [p \in Procs |-> "idle"]
    /\ call = [p \in Procs |-> NoCall]
    /\ loc = [p \in Procs |-> NoLoc]
    /\ ret = [p \in Procs |-> NoRet]
    /\ hist = [p \in Procs |-> NoHist]
    /\ nops = 0

\* ----------------------------------------------------------------------
\* One caller: every operation, one call after the other
\* ----------------------------------------------------------------------
Caller == CHOOSE p \in Procs : TRUE

CreateInputs ==
    {EntityIn("e1", "A", <<"x", "y">>, <<>>, NoMeta),
     EntityIn("e2", "B", Str("y"), Str("d"), ObjA1),
     EntityIn("", "A", Str("x"), <<>>, ObjAB1)}
PatchInputs ==
    {EntityIn("e1", "B", <<>>, <<>>, ObjA2),
     EntityIn("e2", "", Str("z"), Str("d"), NoMeta),
     EntityIn("", "B", <<>>, <<>>, NoMeta)}
RelationInputs ==
    {[id |-> "r1", type |-> "k", source |-> "e1", target |-> "e2"],
     [id |-> "r2", type |-> "k", source |-> "e1", target |-> "e1"],
     [id |-> "", type |-> "j", source |-> "e2", target |-> "e1"]}
MatchSpecs ==
    {[id |-> "r2", type |-> "", source |-> "", target |-> ""],
     [id |-> "", type |-> "k", source |-> "e1", target |-> "e2"]}
ObservationInputs ==
    {[id |-> "o2", entity_id |-> "e2", timestamp |-> 1, type |-> "note", tags |-> <<>>],
     [id |-> "", entity_id |-> "e1", timestamp |-> 0, type |-> "note", tags |-> <<>>]}
UpdateInputs ==
    {[path \in {<<"a">>} |-> Num(2)],
     [path \in {<<"a", "b">>, <<"b">>} |-> Num(2)],
     [path \in {<<"a">>} |-> ObjB2]}
Operations == {"merge", "replace", "delete", "append"}
Filters ==
    {[type |-> "A", nameContains |-> <<>>, descriptionContains |-> <<>>],
     [type |-> "", nameContains |-> Str("y"), descriptionContains |-> Str("d")]}

\* generateID never gives the same id twice; the model has one fresh id for
\* each collection, so an argument list asks for at most one
OneFresh(in) == Cardinality({i \in 1..Len(in) : in[i].id = ""}) <= 1

Begin(p) ==
    \/ \E in \in {l \in Lists(CreateInputs) : OneFresh(l)} : BeginCreateEntities(p, in)
    \/ \E in \in Lists(PatchInputs) : BeginUpdateEntities(p, in)
    \/ \E ids \in Lists({"e1", "e2"}) : BeginDeleteEntities(p, ids)
    \/ \E in \in {l \in Lists(RelationInputs) : OneFresh(l)} : BeginCreateRelations(p, in)
    \/ \E specs \in Lists(MatchSpecs) : BeginDeleteRelations(p, specs)
    \/ \E in \in {l \in Lists(ObservationInputs) : OneFresh(l)} : BeginAddObservations(p, in)
    \/ \E ids \in Lists({"o1", "o2"}) : BeginDeleteObservations(p, ids)
    \/ \E id \in {"e1", "e2"}, in \in UpdateInputs, operation \in Operations :
         BeginUpdateMetadataForEntity(p, id, in, operation)
    \/ \E filter \in Filters, in \in UpdateInputs, operation \in Operations :
         BeginBulkUpdateMetadata(p, filter, in, operation)
    \/ BeginQuery(p)

Next ==
    \/ Begin(Caller)
    \/ saveGraphEnter(Caller)
    \/ saveGraphWrite(Caller)
    \/ saveGraphUnlock(Caller)
    \/ saveGraphReturn(Caller)
    \/ CreateEntitiesLock(Caller)
    \/ CreateEntitiesStep(Caller)
    \/ UpdateEntitiesValidate(Caller)
    \/ UpdateEntitiesApply(Caller)
    \/ UpdateEntitiesRelock(Caller)
    \/ UpdateEntitiesRollback(Caller)
    \/ UpdateEntitiesDeferredUnlock(Caller)
    \/ DeleteEntitiesBody(Caller)
    \/ CreateRelationsBody(Caller)
    \/ DeleteRelationsBody(Caller)
    \/ AddObservationsBody(Caller)
    \/ DeleteObservationsBody(Caller)
    \/ UpdateMetadataForEntityBody(Caller)
    \/ UpdateMetadataForEntitySaved(Caller)
    \/ BulkUpdateMetadataFilter(Caller)
    \/ BulkUpdateMetadataApply(Caller)
    \/ BulkUpdateMetadataSaved(Caller)
    \/ QueryRLock(Caller)
    \/ QueryScan(Caller)
    \/ Finish(Caller)

Spec == Init /\ [][Next]_vars

\* ----------------------------------------------------------------------
\* Two callers: a reader against the multi-record writes
\* ----------------------------------------------------------------------
ConcCreateLists ==
    {in \in Lists({EntityIn("e2", "B", Str("y"), <<>>, ObjA1),
                   EntityIn("u1", "A", Str("x"), <<>>, NoMeta)}) : Len(in) = MaxList}
ConcPatchLists ==
    {in \in Lists({EntityIn("e1", "B", <<>>, <<>>, ObjA2),
                   EntityIn("e2", "C", <<>>, <<>>, NoMeta)}) : Len(in) = MaxList}
ConcUpdateInputs == {[path \in {<<"a">>} |-> Num(2)]}

BeginConc(p) ==
    \/ \E in \in ConcCreateLists : BeginCreateEntities(p, in)
    \/ \E in \in ConcPatchLists : BeginUpdateEntities(p, in)
    \/ \E in \in ConcUpdateInputs :
         BeginBulkUpdateMetadata(p, [type |-> "A", nameContains |-> <<>>,
                                     descriptionContains |-> <<>>], in, "replace")
    \/ BeginQuery(p)

NextConc ==
    \E p \in Procs :
        \/ BeginConc(p)
        \/ saveGraphEnter(p)
        \/ saveGraphWrite(p)
        \/ saveGraphUnlock(p)
        \/ saveGraphReturn(p)
        \/ CreateEntitiesLock(p)
        \/ CreateEntitiesStep(p)
        \/ UpdateEntitiesValidate(p)
        \/ UpdateEntitiesApply(p)
        \/ UpdateEntitiesRelock(p)
        \/ UpdateEntitiesRollback(p)
        \/ UpdateEntitiesDeferredUnlock(p)
        \/ BulkUpdateMetadataFilter(p)
        \/ BulkUpdateMetadataApply(p)
        \/ BulkUpdateMetadataSaved(p)
        \/ QueryRLock(p)
        \/ QueryScan(p)
        \/ Finish(p)

SpecConc == Init /\ [][NextConc]_vars

\* ----------------------------------------------------------------------
\* Two callers: one keeps the document ReadGraph gave it while the other writes
\* ----------------------------------------------------------------------
BeginRead(p) ==
    \/ BeginReadGraph(p)
    \/ \E in \in ConcCreateLists : BeginCreateEntities(p, in)
    \/ \E specs \in Lists(MatchSpecs) : BeginDeleteRelations(p, specs)

NextRead ==
    \E p \in Procs :
        \/ BeginRead(p)
        \/ ReadGraph(p)
        \/ CreateEntitiesLock(p)
        \/ CreateEntitiesStep(p)
        \/ DeleteRelationsBody(p)
        \/ saveGraphEnter(p)
        \/ saveGraphWrite(p)
        \/ saveGraphUnlock(p)
        \/ saveGraphReturn(p)
        \/ Finish(p)

SpecRead == Init /\ [][NextRead]_vars

\* ----------------------------------------------------------------------
\* One caller inside Traverse or GetSubgraph on a store that holds a graph:
\* the graph (with relations left dangling by a deleted entity) and the
\* parameters of the call are drawn from menus
\* ----------------------------------------------------------------------
TypeIs(t) == <<[property |-> "type", value |-> t]>>

TraverseEntities ==
    LET node(id, type) == [id |-> id, type |-> type, name |-> <<>>, description |-> <<>>,
                           meta |-> NilMap]
    IN {[id \in {"e1", "e2", "u1"} |-> node(id, "A")],
        [id \in {"e1", "e2", "u1"} |-> node(id, IF id = "e2" THEN "B" ELSE "A")],
        [id \in {"e1", "e2"} |-> node(id, "A")]}

RelationPool ==
    [id \in {"r1", "r2", "r3", "r4"} |->
        IF id = "r1" THEN [id |-> id, type |-> "k", source |-> "e1", target |-> "e2"]
        ELSE IF id = "r2" THEN [id |-> id, type |-> "j", source |-> "u1", target |-> "e2"]
        ELSE IF id = "r3" THEN [id |-> id, type |-> "k", source |-> "u1", target |-> "e1"]
        ELSE [id |-> id, type |-> "k", source |-> "e2", target |-> "u1"]]

TraverseRelations == {[id \in S |-> RelationPool[id]] : S \in SUBSET DOMAIN RelationPool}

TraverseCalls ==
    {[NoCall EXCEPT !.op = "Traverse", !.startNodeIDs = starts, !.algorithm = algorithm,
                    !.maxDepth = maxDepth, !.nodeFilter = nf, !.relationFilter = rf] :
        starts \in Lists({"e2", "u1"}), algorithm \in {"BFS", "DFS"},
        maxDepth \in -1..MaxDepth, nf \in {<<>>, TypeIs("A")}, rf \in {<<>>, TypeIs("k")}}

SubgraphCalls ==
    {[NoCall EXCEPT !.op = "GetSubgraph", !.startNodeIDs = starts, !.radius = radius,
                    !.nodeFilter = nf, !.relationFilter = rf] :
        starts \in Lists({"e2", "u1"}), radius \in -1..MaxDepth,
        nf \in {<<>>, TypeIs("A")}, rf \in {<<>>, TypeIs("k")}}

FindPathsCalls ==
    {[NoCall EXCEPT !.op = "FindPaths", !.startNodeID = s, !.endNodeID = t,
                    !.maxLength = maxLength, !.nodeFilter = nf, !.relationFilter = rf] :
        s \in EntityIds, t \in EntityIds, maxLength \in -1..MaxDepth,
        nf \in {<<>>, TypeIs("A")}, rf \in {<<>>, TypeIs("k")}}

InitTraverse ==
    /\ filePath = ""
    /\ disk = Missing
    /\ entities \in TraverseEntities
    /\ relations \in TraverseRelations
    /\ observations = EmptyFcn
    /\ heap = <<>>
    /\ mu = [w |-> FALSE, r |-> 0]
    /\ crashed = FALSE
    /\ call \in {[p \in Procs |-> IF p = Caller THEN c ELSE NoCall] :
                    c \in TraverseCalls \cup SubgraphCalls \cup FindPathsCalls}
    /\ pc = [p \in Procs |-> IF p # Caller THEN "idle"
                              ELSE IF call[p].op = "Traverse" THEN "TR_rlock"
                              ELSE IF call[p].op = "GetSubgraph" THEN "SG_rlock"
                              ELSE "FP_rlock"]
    /\ loc = [p \in Procs |-> NoLoc]
    /\ ret = [p \in Procs |-> NoRet]
    /\ hist = [p \in Procs |-> IF p = Caller
                                THEN [NoHist EXCEPT !.serial = 1, !.pre = Current]
                                ELSE NoHist]
    /\ nops = 1

NextTraverse ==
    \/ TraverseRLock(Caller)
    \/ GetSubgraphRLock(Caller)
    \/ BFSStart(Caller)
    \/ BFSStep(Caller)
    \/ DFSStart(Caller)
    \/ DFSStep(Caller)
    \/ SubgraphCollect(Caller)
    \/ FindPathsStart(Caller)
    \/ FindPathsStep(Caller)
    \/ Finish(Caller)

SpecTraverse == InitTraverse /\ [][NextTraverse]_vars

\* ----------------------------------------------------------------------
\* Properties
\* ----------------------------------------------------------------------
\* ----------------------------------------------------------------------
\* The timeline of an entity: the observations and the call are drawn, one
\* caller runs the call
\* ----------------------------------------------------------------------
ObservationPool ==
    [id \in {"o1", "o2", "o3", "o4", "o5"} |->
        [id |-> id,
         entity_id |-> IF id = "o4" THEN "e2" ELSE "e1",
         timestamp |-> IF id = "o1" THEN 1 ELSE IF id \in {"o2", "o3"} THEN 2 ELSE MaxTime,
         type |-> IF id = "o2" THEN "fact" ELSE "note",
         tags |-> IF id = "o1" THEN <<"x">> ELSE IF id = "o2" THEN <<"x", "y">>
                  ELSE IF id = "o3" THEN <<>> ELSE <<"y">>]]

TimelineCalls ==
    {[NoCall EXCEPT !.op = "GetEntityTimeline", !.entityID = id, !.startTime = a,
                    !.endTime = b, !.observationType = t, !.tags = tags] :
        id \in EntityIds, a \in 0..MaxTime, b \in 0..MaxTime, t \in {"", "note"},
        tags \in {<<>>, <<"y">>, <<"x", "z">>}}

InitTimeline ==
    /\ filePath = ""
    /\ disk = Missing
    /\ entities = [id \in {"e1", "e2"} |->
                      [id |-> id, type |-> "A", name |-> <<>>, description |-> <<>>,
                       meta |-> NilMap]]
    /\ relations = EmptyFcn
    /\ observations \in {[id \in S |-> ObservationPool[id]] : S \in SUBSET DOMAIN ObservationPool}
    /\ heap = <<>>
    /\ mu = [w |-> FALSE, r |-> 0]
    /\ crashed = FALSE
    /\ call \in {[p \in Procs |-> IF p = Caller THEN c ELSE NoCall] : c \in TimelineCalls}
    /\ pc = [p \in Procs |-> IF p = Caller THEN "TL_rlock" ELSE "idle"]
    /\ loc = [p \in Procs |-> NoLoc]
    /\ ret = [p \in Procs |-> NoRet]
    /\ hist = [p \in Procs |-> IF p = Caller
                                THEN [NoHist EXCEPT !.serial = 1, !.pre = Current]
                                ELSE NoHist]
    /\ nops = 1

NextTimeline ==
    \/ TimelineRLock(Caller)
    \/ TimelineScan(Caller)
    \/ Finish(Caller)

SpecTimeline == InitTimeline /\ [][NextTimeline]_vars

\* ----------------------------------------------------------------------
\* The query engine: the records and the input are drawn, one caller runs
\* the query
\* ----------------------------------------------------------------------
\* what a record holds under the metadata key "a": nothing, nil, 2, 10, "1a"
NoValue == [tag |-> "none", v |-> 0]
QueryValues == {NoValue, Null, Num(2), Num(10), Text(<<49, 97>>)}

QueryFilter(field, operator, value) == [field |-> field, operator |-> operator, value |-> value]

FilterLists ==
    LET typeIsA == QueryFilter("type", "eq", Text(Bytes("A")))
        onA == {QueryFilter("metadata.a", operator, value) :
                  operator \in Operators \cup {"bogus"},
                  value \in {Null, Num(2), Text(<<49>>), List(<<Num(2), Null>>)}}
        others == {typeIsA, QueryFilter("bogus", "eq", Text(Bytes("A"))),
                   QueryFilter("type", "bogus", Text(Bytes("A")))}
    IN {<<f>> : f \in onA \cup others}
         \cup {<<typeIsA, f>> : f \in {QueryFilter("metadata.a", "bogus", Num(2)),
                                       QueryFilter("metadata.a", "neq", Num(2)),
                                       QueryFilter("bogus", "eq", Null)}}

QueryInput(targetType, filters, sortBy, sortOrder, limit, offset) ==
    [NoCall EXCEPT !.op = "Query", !.targetType = targetType, !.filters = filters,
                   !.sortBy = sortBy, !.sortOrder = sortOrder,
                   !.limit = limit, !.offset = offset]

QueryInputs ==
    LET some == {<<>>, <<QueryFilter("type", "eq", Text(Bytes("A")))>>}
    IN {QueryInput("entity", filters, "", "", 0, 0) : filters \in FilterLists}
         \cup {QueryInput("entity", filters, sortBy, sortOrder, 0, 0) :
                 filters \in some, sortBy \in {"metadata.a", "type", "bogus"},
                 sortOrder \in {"", "desc", "DESC"}}
         \cup {QueryInput("entity", filters, sortBy, "asc", limit, offset) :
                 filters \in some, sortBy \in {"", "metadata.a"},
                 limit \in {0, 1, 2}, offset \in {-1, 0, 1, Len(EntityIdSeq)}}
         \cup {QueryInput(targetType, <<>>, "type", "asc", 1, 0) :
                 targetType \in {"relation", "invalid"}}

InitQuery ==
    /\ filePath = ""
    /\ disk = Missing
    /\ \E a1, a2 \in QueryValues, a3 \in {NoValue, Num(2), Text(<<49, 97>>)} :
         LET map(val) == IF val = NoValue THEN EmptyMap ELSE [k \in {"a"} |-> val]
             node(id, type, meta) == [id |-> id, type |-> type, name |-> <<>>,
                                      description |-> <<>>, meta |-> meta]
         IN /\ heap = IF a3 = NoValue THEN <<map(a1), map(a2)>>
                      ELSE <<map(a1), map(a2), map(a3)>>
            /\ entities = [id \in EntityIds |->
                             IF id = "e1" THEN node(id, "A", 1)
                             ELSE IF id = "e2" THEN node(id, "B", 2)
                             ELSE node(id, "A", IF a3 = NoValue THEN NilMap ELSE 3)]
    /\ relations = [id \in {"r1", "r2"} |-> RelationPool[id]]
    /\ observations = EmptyFcn
    /\ mu = [w |-> FALSE, r |-> 0]
    /\ crashed = FALSE
    /\ call \in {[p \in Procs |-> IF p = Caller THEN c ELSE NoCall] : c \in QueryInputs}
    /\ pc = [p \in Procs |-> IF p = Caller THEN "QY_rlock" ELSE "idle"]
    /\ loc = [p \in Procs |-> NoLoc]
    /\ ret = [p \in Procs |-> NoRet]
    /\ hist = [p \in Procs |-> IF p = Caller
                                THEN [NoHist EXCEPT !.serial = 1, !.pre = Current]
                                ELSE NoHist]
    /\ nops = 1

NextQuery ==
    \/ QueryCandidates(Caller)
    \/ QueryRun(Caller)
    \/ Finish(Caller)

SpecQuery == InitQuery /\ [][NextQuery]_vars

\* ----------------------------------------------------------------------
\* applySorting by metadata.a on up to blockSize + 2 records whose values
\* under "a" repeat a pattern of three
\* ----------------------------------------------------------------------
SortIds == <<"x01", "x02", "x03", "x04", "x05", "x06", "x07",
            "x08", "x09", "x10", "x11", "x12", "x13", "x14",
            "x15", "x16", "x17", "x18", "x19", "x20", "x21", "x22">>

InitSort ==
    /\ filePath = ""
    /\ disk = Missing
    /\ \E pattern \in [1..3 -> QueryValues], n \in {3, blockSize, blockSize + 1, blockSize + 2} :
         LET val(i) == pattern[((i - 1) % 3) + 1]
             node(i) == [id |-> SortIds[i], type |-> "A", name |-> <<>>,
                         description |-> <<>>, meta |-> i]
         IN /\ heap = [i \in 1..n |-> IF val(i) = NoValue THEN EmptyMap
                                      ELSE [k \in {"a"} |-> val(i)]]
            /\ entities = [id \in {SortIds[i] : i \in 1..n} |->
                             node(CHOOSE i \in 1..n : SortIds[i] = id)]
            /\ loc = [p \in Procs |-> IF p = Caller
                                       THEN [NoLoc EXCEPT !.candidates = [i \in 1..n |-> node(i)]]
                                       ELSE NoLoc]
    /\ relations = EmptyFcn
    /\ observations = EmptyFcn
    /\ mu = [w |-> FALSE, r |-> 1]
    /\ crashed = FALSE
    /\ call \in {[p \in Procs |->
                    IF p = Caller
                    THEN [QueryInput("entity", <<>>, "metadata.a", sortOrder, 0, 0)
                            EXCEPT !.op = "applySorting"]
                    ELSE NoCall] : sortOrder \in {"asc", "desc"}}
    /\ pc = [p \in Procs |-> IF p = Caller THEN "SO_sort" ELSE "idle"]
    /\ ret = [p \in Procs |-> NoRet]
    /\ hist = [p \in Procs |-> IF p = Caller
                                THEN [NoHist EXCEPT !.serial = 1, !.pre = Current]
                                ELSE NoHist]
    /\ nops = 1

NextSort == SortApply(Caller)

SpecSort == InitSort /\ [][NextSort]_vars

\* ----------------------------------------------------------------------
\* One caller, one UpdateEntities call: lists that patch an id twice
\* ----------------------------------------------------------------------
OrderedPatchInputs ==
    PatchInputs \cup {EntityIn("e1", "A", Str("z"), <<>>, ObjB2)}

BeginPatch(p) ==
    /\ nops = 0
    /\ \E in \in Lists(OrderedPatchInputs) : BeginUpdateEntities(p, in)

NextPatch ==
    \/ BeginPatch(Caller)
    \/ UpdateEntitiesValidate(Caller)
    \/ UpdateEntitiesApply(Caller)
    \/ saveGraphEnter(Caller)
    \/ saveGraphWrite(Caller)
    \/ saveGraphUnlock(Caller)
    \/ UpdateEntitiesRelock(Caller)
    \/ UpdateEntitiesRollback(Caller)
    \/ UpdateEntitiesDeferredUnlock(Caller)
    \/ Finish(Caller)

SpecPatch == Init /\ [][NextPatch]_vars

\* ----------------------------------------------------------------------
\* setNestedValue: metadata of up to three levels, paths of up to three
\* parts, scalar and map values, every operation
\* ----------------------------------------------------------------------
ObjA1B1 == Obj([k \in {"a", "b"} |-> Num(1)])
MetadataTrees ==
    {Obj(EmptyMap), ObjA1, ObjAB1,
     Obj([k \in {"a", "b"} |-> IF k = "a" THEN ObjA1B1 ELSE Num(1)]),
     Obj([k \in {"a", "b"} |-> IF k = "a" THEN Obj([j \in {"a", "b"} |->
                                                      IF j = "b" THEN ObjA1B1 ELSE Num(1)])
                               ELSE ObjA1])}
PathInputs == {<<"a">>, <<"b">>, <<"a", "b">>, <<"b", "a">>, <<"a", "b", "a">>}
ValueInputs == {Num(2), ObjA2, ObjB2}

InitPath ==
    /\ filePath = ""
    /\ disk = Missing
    /\ relations = EmptyFcn
    /\ observations = EmptyFcn
    /\ entities = [id \in {"e1"} |-> [id |-> "e1", type |-> "A", name |-> <<>>,
                                      description |-> <<>>, meta |-> 1]]
    /\ \E tree \in MetadataTrees, path \in PathInputs, value \in ValueInputs,
          operation \in Operations :
         LET a == allocUpdates(Unmarshal(<<>>, tree).h, [x \in {path} |-> value], {path})
         IN /\ heap = a.h
            /\ call = [p \in Procs |->
                         IF p = Caller
                         THEN [NoCall EXCEPT !.op = "setNestedValue", !.id = "e1",
                                             !.updates = a.updates, !.operation = operation]
                         ELSE NoCall]
    /\ mu = [w |-> TRUE, r |-> 0]
    /\ crashed = FALSE
    /\ pc = [p \in Procs |-> IF p = Caller THEN "SN_apply" ELSE "idle"]
    /\ loc = [p \in Procs |-> NoLoc]
    /\ ret = [p \in Procs |-> NoRet]
    /\ hist = [p \in Procs |-> IF p = Caller
                                THEN [NoHist EXCEPT !.serial = 1, !.pre = Current]
                                ELSE NoHist]
    /\ nops = 1

NextPath == SetNestedValueApply(Caller)

SpecPath == InitPath /\ [][NextPath]_vars

\* ----------------------------------------------------------------------
\* Two callers: a write whose save may fail and roll back, and another write
\* or a delete of the same entity
\* ----------------------------------------------------------------------
BeginRollback(p) ==
    \/ \E in \in {<<EntityIn("e1", "B", <<>>, <<>>, ObjA2)>>,
                  <<EntityIn("e1", "C", <<>>, <<>>, NoMeta)>>} : BeginUpdateEntities(p, in)
    \/ BeginUpdateMetadataForEntity(p, "e1", [path \in {<<"a">>} |-> Num(2)], "replace")
    \/ BeginBulkUpdateMetadata(p, [type |-> "A", nameContains |-> <<>>,
                                   descriptionContains |-> <<>>],
                               [path \in {<<"b">>} |-> Num(2)], "replace")
    \/ BeginDeleteEntities(p, <<"e1">>)

NextRollback ==
    \E p \in Procs :
        \/ BeginRollback(p)
        \/ saveGraphEnter(p)
        \/ saveGraphWrite(p)
        \/ saveGraphUnlock(p)
        \/ saveGraphReturn(p)
        \/ UpdateEntitiesValidate(p)
        \/ UpdateEntitiesApply(p)
        \/ UpdateEntitiesRelock(p)
        \/ UpdateEntitiesRollback(p)
        \/ UpdateEntitiesDeferredUnlock(p)
        \/ UpdateMetadataForEntityBody(p)
        \/ UpdateMetadataForEntitySaved(p)
        \/ BulkUpdateMetadataFilter(p)
        \/ BulkUpdateMetadataApply(p)
        \/ BulkUpdateMetadataSaved(p)
        \/ DeleteEntitiesBody(p)
        \/ Finish(p)

SpecRollback == Init /\ [][NextRollback]_vars

\* ----------------------------------------------------------------------
\* Two callers that write: a create, a metadata update of one entity and a
\* bulk metadata update, each with a document write that may fail
\* ----------------------------------------------------------------------
BeginWriters(p) ==
    \/ BeginCreateEntities(p, <<EntityIn("e2", "B", Str("y"), <<>>, ObjA1)>>)
    \/ BeginUpdateMetadataForEntity(p, "e1", [path \in {<<"a">>} |-> Num(2)], "replace")
    \/ BeginBulkUpdateMetadata(p, [type |-> "A", nameContains |-> <<>>,
                                   descriptionContains |-> <<>>],
                               [path \in {<<"b">>} |-> Num(2)], "replace")

NextWriters ==
    \E p \in Procs :
        \/ BeginWriters(p)
        \/ saveGraphEnter(p)
        \/ saveGraphWrite(p)
        \/ saveGraphUnlock(p)
        \/ saveGraphReturn(p)
        \/ CreateEntitiesLock(p)
        \/ CreateEntitiesStep(p)
        \/ UpdateMetadataForEntityBody(p)
        \/ UpdateMetadataForEntitySaved(p)
        \/ BulkUpdateMetadataFilter(p)
        \/ BulkUpdateMetadataApply(p)
        \/ BulkUpdateMetadataSaved(p)
        \/ Finish(p)

SpecWriters == Init /\ [][NextWriters]_vars

\* ----------------------------------------------------------------------
\* The searches on graphs with cycles, a self-loop and parallel relations,
\* with every bound from -1 (none) up; the caller's goroutine keeps running,
\* so a step of it that can be taken is taken
\* ----------------------------------------------------------------------
LoopPool ==
    [id \in {"r1", "r2", "r3", "r4", "r5", "r6"} |->
        IF id = "r1" THEN [id |-> id, type |-> "k", source |-> "e1", target |-> "e2"]
        ELSE IF id = "r2" THEN [id |-> id, type |-> "j", source |-> "u1", target |-> "e2"]
        ELSE IF id = "r3" THEN [id |-> id, type |-> "k", source |-> "u1", target |-> "e1"]
        ELSE IF id = "r4" THEN [id |-> id, type |-> "k", source |-> "e2", target |-> "u1"]
        ELSE IF id = "r5" THEN [id |-> id, type |-> "k", source |-> "e2", target |-> "e2"]
        ELSE [id |-> id, type |-> "j", source |-> "e1", target |-> "e2"]]

LoopRelations ==
    {[id \in S \cup {"r5"} |-> LoopPool[id]] : S \in SUBSET {"r1", "r2", "r3", "r4", "r6"}}

LoopCalls ==
    {[NoCall EXCEPT !.op = "Traverse", !.startNodeIDs = starts, !.algorithm = algorithm,
                    !.maxDepth = maxDepth] :
        starts \in {<<"e2">>, <<"u1", "e2">>, <<"e2", "e2">>}, algorithm \in {"BFS", "DFS"},
        maxDepth \in -1..MaxDepth}
    \cup
    {[NoCall EXCEPT !.op = "GetSubgraph", !.startNodeIDs = starts, !.radius = radius] :
        starts \in {<<"e2">>, <<"u1", "e2">>, <<"e2", "e2">>}, radius \in -1..MaxDepth}
    \cup
    {[NoCall EXCEPT !.op = "FindPaths", !.startNodeID = s, !.endNodeID = t,
                    !.maxLength = maxLength] :
        s \in {"e2", "u1"}, t \in {"e1", "e2"}, maxLength \in -1..MaxDepth}

InitLoops ==
    /\ filePath = ""
    /\ disk = Missing
    /\ entities = [id \in {"e1", "e2", "u1"} |->
                     [id |-> id, type |-> "A", name |-> <<>>, description |-> <<>>,
                      meta |-> NilMap]]
    /\ relations \in LoopRelations
    /\ observations = EmptyFcn
    /\ heap = <<>>
    /\ mu = [w |-> FALSE, r |-> 0]
    /\ crashed = FALSE
    /\ call \in {[p \in Procs |-> IF p = Caller THEN c ELSE NoCall] : c \in LoopCalls}
    /\ pc = [p \in Procs |-> IF p # Caller THEN "idle"
                              ELSE IF call[p].op = "Traverse" THEN "TR_rlock"
                              ELSE IF call[p].op = "GetSubgraph" THEN "SG_rlock"
                              ELSE "FP_rlock"]
    /\ loc = [p \in Procs |-> NoLoc]
    /\ ret = [p \in Procs |-> NoRet]
    /\ hist = [p \in Procs |-> IF p = Caller
                                THEN [NoHist EXCEPT !.serial = 1, !.pre = Current]
                                ELSE NoHist]
    /\ nops = 1

SpecLoops == InitLoops /\ [][NextTraverse]_vars /\ WF_vars(NextTraverse)

\* ----------------------------------------------------------------------
\* One caller on a store opened on a path where no document exists yet:
\* whatever document is on disk, a call of this run has written
\* ----------------------------------------------------------------------
InitFresh == Init /\ filePath = "kg.json" /\ disk = Missing

SpecFresh == InitFresh /\ [][Next]_vars

TypeOK ==
    /\ mu.r \in 0..Cardinality(Procs)
    /\ \A p \in Procs : ret[p].status \in {"none", "ok", "err"}

\* C1: with a non-empty path, a write operation that changed the in-memory
\* store returns success only after a document write of its own succeeded, and
\* that write came after the last change the operation made.
C1_SuccessAfterOwnWrite ==
    \A p \in Procs :
        (filePath # "" /\ pc[p] = "done" /\ ret[p] = Ok /\ hist[p].mutated)
            => hist[p].saved

C1_Witness ==
    \E p \in Procs :
        /\ filePath # "" /\ pc[p] = "done" /\ ret[p] = Ok
        /\ hist[p].mutated /\ hist[p].saved
        /\ Current # hist[p].pre

\* C2: after a write operation wrote the document and returned success, with
\* no other operation in flight, a fresh store opened on the same path reads
\* the entities, relations and observations of the writing store.
C2_ReopenReadsWhatWasWritten ==
    \A p \in Procs :
        (filePath # "" /\ pc[p] = "done" /\ ret[p] = Ok /\ hist[p].saved /\ hist[p].alone)
            => Reopened = Current

C2_Witness ==
    \E p \in Procs :
        /\ filePath # "" /\ pc[p] = "done" /\ ret[p] = Ok
        /\ hist[p].saved /\ hist[p].alone /\ hist[p].mutated
        /\ \E id \in DOMAIN entities : Current.entities[id].metadata # Obj(EmptyMap)
        /\ Current.relations # EmptyFcn
        /\ Reopened = Current

\* C3: when the document write fails in UpdateEntities, the call returns a
\* persistence error and, once the rollback has run, every entity named in
\* the patch list equals its record from before the call, metadata included.
C3_UpdateEntitiesRollback ==
    \A p \in Procs :
        (call[p].op = "UpdateEntities" /\ loc[p].saveErr /\ hist[p].alone
           /\ pc[p] \in {"UE_unlock", "done"})
            => /\ pc[p] = "done" => ret[p] = Err("persistence")
               /\ \A i \in 1..Len(call[p].list) :
                    LET id == call[p].list[i].id
                    IN /\ id \in DOMAIN entities
                       /\ EntityValue(heap, entities[id]) = hist[p].pre.entities[id]

\* C4: when a path application fails in UpdateMetadataForEntity, the stored
\* metadata of the entity is what it was before the call.
C4_MetadataUnchangedOnPathError ==
    \A p \in Procs :
        (call[p].op = "UpdateMetadataForEntity" /\ pc[p] = "done"
           /\ hist[p].pathErr /\ hist[p].alone)
            => /\ ret[p].status = "err"
               /\ MetaValue(heap, entities[call[p].id].meta)
                    = hist[p].pre.entities[call[p].id].metadata

\* C5: when a path application fails on some matched entity in
\* BulkUpdateMetadata, every matched entity has the metadata it had before the
\* call, an error is returned and the document is not written.
C5_BulkRollbackOnPathError ==
    \A p \in Procs :
        (call[p].op = "BulkUpdateMetadata" /\ pc[p] = "done"
           /\ hist[p].pathErr /\ hist[p].alone)
            => /\ ret[p] = Err("badarg")
               /\ ~hist[p].wrote
               /\ \A id \in DOMAIN loc[p].orig :
                    /\ id \in DOMAIN entities
                    /\ MetaValue(heap, entities[id].meta) = hist[p].pre.entities[id].metadata

C5_Witness ==
    \E p \in Procs :
        /\ call[p].op = "BulkUpdateMetadata" /\ pc[p] = "done"
        /\ hist[p].pathErr /\ hist[p].alone
        /\ ret[p] = Err("badarg")
        /\ loc[p].i > 1
        /\ hist[p].mutated
        /\ Stored(entities, heap) = hist[p].pre.entities

\* C6: when the document write fails in UpdateMetadataForEntity or
\* BulkUpdateMetadata, with no other operation in flight, the call returns a
\* persistence error and the metadata of every affected entity equals what it
\* was before the call.
C6_MetadataRollbackOnSaveFailure ==
    \A p \in Procs :
        (call[p].op \in {"UpdateMetadataForEntity", "BulkUpdateMetadata"}
           /\ pc[p] = "done" /\ loc[p].saveErr /\ hist[p].alone)
            => /\ ret[p] = Err("persistence")
               /\ \A id \in DOMAIN loc[p].orig :
                    /\ id \in DOMAIN entities
                    /\ MetaValue(heap, entities[id].meta) = hist[p].pre.entities[id].metadata

C6_Witness ==
    \E p \in Procs :
        /\ call[p].op = "BulkUpdateMetadata"
        /\ pc[p] = "done" /\ loc[p].saveErr /\ hist[p].alone
        /\ ret[p] = Err("persistence")
        /\ Cardinality(DOMAIN loc[p].orig) >= 2
        /\ hist[p].applied /\ hist[p].post # hist[p].pre.entities
        /\ Stored(entities, heap) = hist[p].pre.entities

\* C7: CreateEntities validates the whole list before it changes anything:
\* when an input names the id of an existing entity or of an earlier input,
\* the call fails with a conflict error and the entity collection is exactly
\* what it was before the call.
C7_CreateEntitiesAllOrNothing ==
    \A p \in Procs :
        (call[p].op = "CreateEntities" /\ pc[p] = "done" /\ hist[p].alone
           /\ \E i \in 1..Len(call[p].list) :
                 /\ call[p].list[i].id # ""
                 /\ \/ call[p].list[i].id \in DOMAIN hist[p].pre.entities
                    \/ \E j \in 1..(i - 1) : call[p].list[j].id = call[p].list[i].id)
            => /\ ret[p] = Err("conflict")
               /\ Stored(entities, heap) = hist[p].pre.entities

\* C8: CreateRelations on a list in which some relation names a source or a
\* target that is not an existing entity returns an error and leaves no
\* relation of the list in the relation collection.
C8_CreateRelationsAllOrNothing ==
    \A p \in Procs :
        (call[p].op = "CreateRelations" /\ pc[p] = "done" /\ hist[p].alone
           /\ \E i \in 1..Len(call[p].list) :
                 \/ call[p].list[i].source \notin DOMAIN hist[p].pre.entities
                 \/ call[p].list[i].target \notin DOMAIN hist[p].pre.entities)
            => /\ ret[p].status = "err"
               /\ relations = hist[p].pre.relations

\* C9: UpdateEntities applies nothing unless every patch is valid: when some
\* patch has no id or names an entity that does not exist, the call returns
\* an error and the entity collection is as it was.
C9_UpdateEntitiesValidatesFirst ==
    \A p \in Procs :
        (call[p].op = "UpdateEntities" /\ pc[p] = "done" /\ hist[p].alone
           /\ \E i \in 1..Len(call[p].list) :
                 call[p].list[i].id \notin DOMAIN hist[p].pre.entities)
            => /\ ret[p] \in {Err("badarg"), Err("notfound")}
               /\ ~hist[p].mutated
               /\ Stored(entities, heap) = hist[p].pre.entities

C9_Witness ==
    \E p \in Procs :
        /\ call[p].op = "UpdateEntities" /\ pc[p] = "done" /\ hist[p].alone
        /\ Len(call[p].list) >= 2
        /\ call[p].list[1].id \in DOMAIN entities
        /\ call[p].list[1].type # entities[call[p].list[1].id].type
        /\ call[p].list[2].id \notin DOMAIN entities
        /\ ret[p] = Err("notfound")
        /\ Stored(entities, heap) = hist[p].pre.entities

\* C10: a read that runs concurrently with a multi-record CreateEntities,
\* UpdateEntities or BulkUpdateMetadata whose validation succeeded sees the
\* entity collection either without any or with all of that call's changes.
C10_ReadSeesNoneOrAll ==
    \A r \in Procs : \A w \in Procs \ {r} :
        (pc[r] = "done" /\ call[r].op = "Query"
           /\ call[w].op \in {"CreateEntities", "UpdateEntities", "BulkUpdateMetadata"}
           /\ hist[w].valid /\ hist[w].serial \in hist[r].overlap)
            => \/ loc[r].seen = hist[w].before
               \/ hist[w].applied /\ loc[r].seen = hist[w].post

\* C11: the document write of a write operation happens outside the lock:
\* while a caller is performing its document write the lock is not held, so a
\* reader can take the read lock during that write.
C11_WriteOutsideLock ==
    \A p \in Procs : pc[p] = "SV_write" => ~mu.w

\* C12: of two write operations in flight together, the one that took the write
\* lock for its in-memory change first performs its document write first: once
\* the later one has written, the earlier one is not still waiting to write,
\* and if both have written, the writes came in the order of the locks.
C12_WritesFollowLockOrder ==
    \A p, q \in Procs :
        (/\ hist[p].lockSeq > 0
         /\ hist[q].lockSeq > hist[p].lockSeq
         /\ hist[q].writeSeq > 0)
            => /\ pc[p] \notin {"save", "SV_write"}
               /\ hist[p].writeSeq > 0 => hist[p].writeSeq < hist[q].writeSeq

\* C13: every state a read observes is the latest successfully persisted
\* document, or a newer state of a write in flight that then becomes the
\* persisted document. A read during which no other call is in flight has no
\* such write to see, so (the file being readable, and so holding the latest
\* persisted document) what it saw is what the file holds.
C13_ReadSeesPersistedState ==
    \A r \in Procs :
        (/\ pc[r] = "done" /\ call[r].op = "Query"
         /\ hist[r].alone /\ hist[r].overlap = {}
         /\ filePath # "" /\ disk # Corrupt)
            => loc[r].seen = Reopened.entities

\* C14: a store opened on a missing file holds the empty graph; a store opened
\* on a file that cannot be parsed is not a store that accepts operations: the
\* first call made on it, the file still being the one it was opened on, does
\* not succeed.
C14_MissingIsEmptyMalformedIsFatal ==
    /\ (nops = 0 /\ disk = Missing) => Current = EmptyDoc
    /\ \A p \in Procs :
          (/\ filePath # "" /\ disk = Corrupt
           /\ nops = 1 /\ pc[p] = "done" /\ ~hist[p].wrote)
              => ret[p].status = "err"

\* C15: DeleteEntities changes only the entity collection: at every point of
\* the call, and so after it, the relations and the observations are those of
\* before the call, those that name a deleted entity included.
C15_DeleteEntitiesNoCascade ==
    \A p \in Procs :
        (call[p].op = "DeleteEntities" /\ hist[p].alone)
            => /\ relations = hist[p].pre.relations
               /\ observations = hist[p].pre.observations

\* a finished delete that left a relation and an observation dangling
C15_Witness ==
    \E p \in Procs :
        /\ call[p].op = "DeleteEntities" /\ hist[p].alone
        /\ pc[p] = "done" /\ ret[p] = Ok
        /\ \E id \in DOMAIN relations :
              /\ relations[id].source \in DOMAIN hist[p].pre.entities
              /\ relations[id].source \notin DOMAIN entities
        /\ \E id \in DOMAIN observations :
              /\ observations[id].entity_id \in DOMAIN hist[p].pre.entities
              /\ observations[id].entity_id \notin DOMAIN entities

\* C16: DeleteRelations removes exactly the relations that some match spec
\* names, by a non-empty id equal to the relation's, or with an empty id by
\* source, target and type; every other relation stays as it was; and the call
\* does not fail for a spec that matches nothing: it fails only if the document
\* write does.
C16_DeleteRelationsExactly ==
    \A p \in Procs :
        (call[p].op = "DeleteRelations" /\ hist[p].alone /\ pc[p] # "DR_body")
            => LET old == hist[p].pre.relations
                   specs == call[p].list
                   named(id) == \E j \in 1..Len(specs) :
                                   \/ specs[j].id # "" /\ specs[j].id = id
                                   \/ /\ specs[j].id = ""
                                      /\ specs[j].source = old[id].source
                                      /\ specs[j].target = old[id].target
                                      /\ specs[j].type = old[id].type
               IN /\ DOMAIN relations = {id \in DOMAIN old : ~named(id)}
                  /\ \A id \in DOMAIN relations : relations[id] = old[id]
                  /\ pc[p] = "done" => \/ ret[p] = Ok
                                       \/ loc[p].saveErr /\ ret[p] = Err("persistence")

\* a successful call with a spec that matched nothing and a spec without id
\* that removed a relation
C16_Witness ==
    \E p \in Procs :
        /\ call[p].op = "DeleteRelations" /\ hist[p].alone
        /\ pc[p] = "done" /\ ret[p] = Ok
        /\ \E j \in 1..Len(call[p].list) :
              /\ call[p].list[j].id # ""
              /\ call[p].list[j].id \notin DOMAIN hist[p].pre.relations
        /\ \E j \in 1..Len(call[p].list) : call[p].list[j].id = ""
        /\ DOMAIN relations # DOMAIN hist[p].pre.relations

\* C17: the document ReadGraph returned is a snapshot: whatever write
\* operations do after it returned, the caller that holds it reads in it what
\* the store held when ReadGraph returned.
C17_ReadGraphSnapshot ==
    \A p \in Procs :
        (call[p].op = "ReadGraph" /\ pc[p] = "done")
            => GraphValue(loc[p].graph) = hist[p].returned

\* ----------------------------------------------------------------------
\* Distances in the stored graph, by walks
\* ----------------------------------------------------------------------
\* the walks of k relations, taken in either direction, from a start node
\* through entities that pass the node filter and relations that pass the
\* relation filter
Walks(c, k) ==
    LET passes(id) == matchesEntity(entities[id], c.nodeFilter)
        linked(a, b) == \E x \in DOMAIN relations :
                           /\ matchesRelation(relations[x], c.relationFilter)
                           /\ \/ relations[x].source = a /\ relations[x].target = b
                              \/ relations[x].source = b /\ relations[x].target = a
    IN {w \in [1..(k + 1) -> DOMAIN entities] :
          /\ w[1] \in Range(c.startNodeIDs)
          /\ \A i \in 1..(k + 1) : passes(w[i])
          /\ \A i \in 1..k : linked(w[i], w[i + 1])}

\* the lengths of the walks that end in id; a shortest one visits no entity twice
WalkLengths(c, id) ==
    {k \in 0..Cardinality(DOMAIN entities) : \E w \in Walks(c, k) : w[k + 1] = id}

\* the entities within maxDepth relations of a start node
Within(c) ==
    {id \in DOMAIN entities :
        \E k \in WalkLengths(c, id) : c.maxDepth < 0 \/ k <= c.maxDepth}

\* C18: a BFS traversal returns each entity with a depth from 0 to max_depth
\* (any depth when max_depth is -1), and that depth is the length of a
\* shortest walk to it from a start node, relations taken in either direction,
\* through entities and relations that pass the filters.
C18_BFSDepthIsShortest ==
    \A p \in Procs :
        (/\ call[p].op = "Traverse" /\ call[p].algorithm = "BFS"
         /\ pc[p] = "done" /\ ret[p] = Ok)
            => LET res == loc[p].res
               IN /\ Range(res.visitedEntities) = DOMAIN res.visitedDepths
                  /\ \A id \in DOMAIN res.visitedDepths :
                        /\ res.visitedDepths[id] >= 0
                        /\ call[p].maxDepth >= 0 => res.visitedDepths[id] <= call[p].maxDepth
                        /\ res.visitedDepths[id] \in WalkLengths(call[p], id)
                        /\ \A k \in WalkLengths(call[p], id) : res.visitedDepths[id] <= k

\* a BFS with a relation filter that returned an entity two relations away,
\* over a relation taken against its direction, and left an entity out
C18_Witness ==
    \E p \in Procs :
        /\ call[p].op = "Traverse" /\ call[p].algorithm = "BFS"
        /\ pc[p] = "done" /\ ret[p] = Ok
        /\ call[p].startNodeIDs = <<"e2">> /\ call[p].relationFilter # <<>>
        /\ "u1" \in DOMAIN loc[p].res.visitedDepths
        /\ loc[p].res.visitedDepths["u1"] = 2
        /\ "r2" \in DOMAIN relations

\* C19: DFS and BFS return the same set of visited entities for the same
\* graph, start nodes, max_depth and filters: every entity within max_depth
\* relations, taken in either direction, of a start node through entities and
\* relations that pass the filters, and no other; and both fail exactly when a
\* start node is not stored.
C19_DFSVisitsWhatBFSVisits ==
    \A p \in Procs :
        (call[p].op = "Traverse" /\ pc[p] = "done")
            => /\ ret[p] = Ok => Range(loc[p].res.visitedEntities) = Within(call[p])
               /\ ret[p] # Ok <=> \E id \in Range(call[p].startNodeIDs) : id \notin DOMAIN entities

\* a DFS from two start nodes with max_depth 1 that reached the second start
\* node from the first, at depth 1, and still returned that node's neighbour
C19_Witness ==
    \E p \in Procs :
        /\ call[p].op = "Traverse" /\ call[p].algorithm = "DFS"
        /\ pc[p] = "done" /\ ret[p] = Ok
        /\ call[p].startNodeIDs = <<"u1", "e2">> /\ call[p].maxDepth = 1
        /\ DOMAIN relations = {"r1", "r2"}
        /\ "e1" \in Range(loc[p].res.visitedEntities)

\* C20: the relations GetSubgraph returns are exactly the stored relations
\* with source and target both among the returned entities that match the
\* relation filter, when there is one; so none has an end outside them.
C20_SubgraphRelations ==
    \A p \in Procs :
        (call[p].op = "GetSubgraph" /\ pc[p] = "done" /\ ret[p] = Ok)
            => LET res == loc[p].res
               IN /\ DOMAIN res.subgraphRelations =
                       {x \in DOMAIN relations :
                          /\ relations[x].source \in res.subgraphEntities
                          /\ relations[x].target \in res.subgraphEntities
                          /\ matchesRelation(relations[x], call[p].relationFilter)}
                  /\ \A x \in DOMAIN res.subgraphRelations :
                        res.subgraphRelations[x] = relations[x]

\* a subgraph with a relation in it, a relation left out for an end outside
\* the returned entities, and a relation left out by the relation filter
C20_Witness ==
    \E p \in Procs :
        /\ call[p].op = "GetSubgraph" /\ pc[p] = "done" /\ ret[p] = Ok
        /\ DOMAIN loc[p].res.subgraphRelations # {}
        /\ \E x \in DOMAIN relations :
              /\ relations[x].source \notin loc[p].res.subgraphEntities
              /\ relations[x].target \in loc[p].res.subgraphEntities
        /\ \E x \in DOMAIN relations :
              /\ relations[x].source \in loc[p].res.subgraphEntities
              /\ relations[x].target \in loc[p].res.subgraphEntities
              /\ x \notin DOMAIN loc[p].res.subgraphRelations

\* C21 as stated: GetSubgraph with radius 0 and start nodes that are all
\* stored, none with a relation to itself, returns exactly the start nodes and
\* no relation; a negative radius returns an error.
C21_RadiusZeroAsStated ==
    \A p \in Procs :
        (call[p].op = "GetSubgraph" /\ pc[p] = "done")
            => LET starts == Range(call[p].startNodeIDs)
               IN /\ call[p].radius < 0 => ret[p].status = "err"
                  /\ (/\ call[p].radius = 0
                      /\ starts \subseteq DOMAIN entities
                      /\ \A x \in DOMAIN relations :
                            ~(relations[x].source = relations[x].target
                                /\ relations[x].source \in starts))
                       => /\ ret[p] = Ok
                          /\ loc[p].res.subgraphEntities = starts
                          /\ loc[p].res.subgraphRelations = EmptyFcn

\* C21 (amended): GetSubgraph with radius 0 and start nodes that are all stored
\* returns exactly the start nodes that pass the node filter, and no relation
\* when no stored relation has both its source and its target among them (a
\* relation of a node to itself being one such); a negative radius returns an
\* error.
C21_RadiusZero ==
    \A p \in Procs :
        (call[p].op = "GetSubgraph" /\ pc[p] = "done")
            => LET starts == {id \in Range(call[p].startNodeIDs) \cap DOMAIN entities :
                                matchesEntity(entities[id], call[p].nodeFilter)}
               IN /\ call[p].radius < 0 => ret[p] = Err("badarg")
                  /\ (call[p].radius = 0 /\ Range(call[p].startNodeIDs) \subseteq DOMAIN entities)
                       => /\ ret[p] = Ok
                          /\ loc[p].res.subgraphEntities = starts
                          /\ (\A x \in DOMAIN relations :
                                 ~(relations[x].source \in starts
                                     /\ relations[x].target \in starts))
                               => loc[p].res.subgraphRelations = EmptyFcn

\* radius 0 from two start nodes that have relations, none between the two
C21_Witness ==
    \E p \in Procs :
        /\ call[p].op = "GetSubgraph" /\ pc[p] = "done" /\ ret[p] = Ok
        /\ call[p].radius = 0 /\ call[p].startNodeIDs = <<"e2", "u1">>
        /\ DOMAIN relations = {"r1", "r3"}
        /\ loc[p].res.subgraphEntities = {"e2", "u1"}
        /\ loc[p].res.subgraphRelations = EmptyFcn

\* C22: every path FindPaths returns from s to t with max_length L starts at s,
\* ends at t, alternates entity, relation, entity, has no entity twice, has at
\* most L relations unless L is -1, and each of its relations has the entity
\* before it as source and the entity after it as target.
C22_PathsAreSimpleDirected ==
    \A p \in Procs :
        (call[p].op = "FindPaths" /\ pc[p] \in {"FP_loop", "done"})
            => \A n \in 1..Len(loc[p].res.paths) :
                 LET path == loc[p].res.paths[n]
                     k == Len(path) \div 2
                 IN /\ Len(path) = 2 * k + 1
                    /\ path[1] = Ent(call[p].startNodeID)
                    /\ path[Len(path)] = Ent(call[p].endNodeID)
                    /\ \A i \in 0..k : path[2 * i + 1].kind = "entity"
                                         /\ path[2 * i + 1].id \in DOMAIN entities
                    /\ \A i \in 1..k : /\ path[2 * i].kind = "relation"
                                         /\ path[2 * i].id \in DOMAIN relations
                                         /\ relations[path[2 * i].id].source = path[2 * i - 1].id
                                         /\ relations[path[2 * i].id].target = path[2 * i + 1].id
                    /\ \A i, j \in 0..k : i # j => path[2 * i + 1].id # path[2 * j + 1].id
                    /\ call[p].maxLength >= 0 => k <= call[p].maxLength

\* a call with max_length 2 on the graph with the cycle e1, e2, u1 that
\* returned a path of two relations
C22_Witness ==
    \E p \in Procs :
        /\ call[p].op = "FindPaths" /\ pc[p] = "done" /\ ret[p] = Ok
        /\ call[p].maxLength = 2
        /\ {"r1", "r3", "r4"} \subseteq DOMAIN relations
        /\ \E n \in 1..Len(loc[p].res.paths) : Len(loc[p].res.paths[n]) = 5

\* the simple directed paths from s to t of at most max_length relations (of
\* any length when max_length is -1) whose entities and relations pass the
\* filters, each as the alternating sequence of its items
SimplePaths(c) ==
    LET chains == UNION {[1..k -> DOMAIN relations] : k \in 0..Cardinality(DOMAIN entities)}
        node(rs, i) == IF i = 0 THEN c.startNodeID ELSE relations[rs[i]].target
        good(rs) ==
            /\ c.maxLength >= 0 => Len(rs) <= c.maxLength
            /\ node(rs, Len(rs)) = c.endNodeID
            /\ \A i \in 0..Len(rs) : /\ node(rs, i) \in DOMAIN entities
                                      /\ matchesEntity(entities[node(rs, i)], c.nodeFilter)
            /\ \A i \in 1..Len(rs) : /\ relations[rs[i]].source = node(rs, i - 1)
                                      /\ matchesRelation(relations[rs[i]], c.relationFilter)
            /\ \A i, j \in 0..Len(rs) : i # j => node(rs, i) # node(rs, j)
        items(rs) == [i \in 1..(2 * Len(rs) + 1) |->
                        IF i % 2 = 1 THEN Ent(node(rs, i \div 2)) ELSE Rel(rs[i \div 2])]
    IN {items(rs) : rs \in {x \in chains : good(x)}}

\* C23: FindPaths from a stored start node returns every simple directed path
\* from s to t within max_length whose relations and entities pass the
\* filters, each exactly once.
C23_PathsCompleteNoDuplicates ==
    \A p \in Procs :
        (call[p].op = "FindPaths" /\ pc[p] = "done"
           /\ call[p].startNodeID \in DOMAIN entities)
            => /\ ret[p] = Ok
               /\ \A path \in SimplePaths(call[p]) :
                     Cardinality({n \in 1..Len(loc[p].res.paths) :
                                    loc[p].res.paths[n] = path}) = 1
               /\ \A n, m \in 1..Len(loc[p].res.paths) :
                     n # m => loc[p].res.paths[n] # loc[p].res.paths[m]

\* two paths from u1 to e2, one direct and one through e1, both returned
C23_Witness ==
    \E p \in Procs :
        /\ call[p].op = "FindPaths" /\ pc[p] = "done" /\ ret[p] = Ok
        /\ call[p].startNodeID = "u1" /\ call[p].endNodeID = "e2"
        /\ Cardinality(SimplePaths(call[p])) = 2
        /\ Len(loc[p].res.paths) = 2

\* C24: for a stored entity, GetEntityTimeline with window [a, b] (a zero bound
\* is no bound), a type and tags returns exactly the stored observations of the
\* entity with a timestamp in the window, both ends included, of that type when
\* one is given, and with one of the tags when tags are given, each once, in
\* ascending order of timestamp.
C24_TimelineExact ==
    \A p \in Procs :
        (call[p].op = "GetEntityTimeline" /\ pc[p] = "done"
           /\ call[p].entityID \in DOMAIN entities)
            => LET c == call[p]
                   timeline == loc[p].res.timeline
                   expected == {id \in DOMAIN observations :
                                  /\ observations[id].entity_id = c.entityID
                                  /\ c.startTime = 0 \/ c.startTime <= observations[id].timestamp
                                  /\ c.endTime = 0 \/ observations[id].timestamp <= c.endTime
                                  /\ c.observationType = "" \/ observations[id].type = c.observationType
                                  /\ c.tags = <<>> \/ Range(c.tags) \cap Range(observations[id].tags) # {}}
               IN /\ ret[p] = Ok
                  /\ {timeline[i].id : i \in 1..Len(timeline)} = expected
                  /\ Len(timeline) = Cardinality(expected)
                  /\ \A i \in 1..Len(timeline) : timeline[i] = observations[timeline[i].id]
                  /\ \A i, j \in 1..Len(timeline) :
                       i < j => timeline[i].timestamp <= timeline[j].timestamp

\* a window from 1 to 2 over observations at 1, 2, 2 and MaxTime of e1: the
\* three inside come back, the two bounds included
C24_Witness ==
    \E p \in Procs :
        /\ call[p].op = "GetEntityTimeline" /\ pc[p] = "done" /\ ret[p] = Ok
        /\ call[p].entityID = "e1" /\ call[p].startTime = 1 /\ call[p].endTime = 2
        /\ DOMAIN observations = DOMAIN ObservationPool
        /\ Len(loc[p].res.timeline) = 3
        /\ loc[p].res.timeline[1].id = "o1"

\* the filter as a condition on a record, for the filters that cannot fail:
\* on "type" and on the metadata key "a", by equality with a number or a string
Satisfies(item, filter) ==
    LET held == IF item.meta = NilMap \/ "a" \notin DOMAIN heap[item.meta]
                THEN NoValue ELSE heap[item.meta]["a"]
    IN IF filter.field = "type" THEN Bytes(item.type) = filter.value.v
       ELSE /\ held # NoValue
            /\ IF filter.operator = "eq" THEN held = filter.value
               ELSE held # filter.value

\* C25: total is the number of records of the family that satisfy every
\* filter; results is the slice [offset', offset' + limit') of the sorted
\* sequence of those records, with limit' = 100 for a limit <= 0 and
\* offset' = 0 for a negative offset; the limit and offset returned are limit'
\* and offset'.
C25_TotalAndPage ==
    \A p \in Procs :
        (call[p].op = "Query" /\ pc[p] = "done" /\ ret[p] = Ok)
            => LET c == call[p]
                   res == loc[p].res
                   family == IF c.targetType = "entity" THEN entities ELSE relations
                   limit == IF c.limit <= 0 THEN 100 ELSE c.limit
                   offset == IF c.offset < 0 THEN 0 ELSE c.offset
                   sorted == loc[p].sorted
                   plain == \A j \in 1..Len(c.filters) :
                                /\ c.filters[j].field \in {"type", "metadata.a"}
                                /\ c.filters[j].operator \in {"eq", "neq"}
                                /\ c.filters[j].value.tag \in {"num", "str"}
               IN /\ res.total = Cardinality({id \in DOMAIN family :
                                    \A j \in 1..Len(c.filters) :
                                        matchesQueryFilter(heap, family[id], c.filters[j]).match})
                  /\ plain => res.total = Cardinality({id \in DOMAIN family :
                                    \A j \in 1..Len(c.filters) : Satisfies(family[id], c.filters[j])})
                  /\ Len(sorted) = res.total
                  /\ res.limit = limit /\ res.offset = offset
                  /\ \A i \in 1..Len(sorted) :
                       (offset < i /\ i <= offset + limit)
                           => /\ i - offset <= Len(res.results)
                              /\ res.results[i - offset] = sorted[i]
                  /\ Len(res.results) = Cardinality({i \in 1..Len(sorted) :
                                                       offset < i /\ i <= offset + limit})

\* three records, sorted by metadata.a, limit 2 and offset 1: the second and
\* the third of the sorted sequence
C25_Witness ==
    \E p \in Procs :
        /\ call[p].op = "Query" /\ pc[p] = "done" /\ ret[p] = Ok
        /\ call[p].limit = 2 /\ call[p].offset = 1 /\ call[p].sortBy = "metadata.a"
        /\ loc[p].res.total = 3
        /\ Len(loc[p].res.results) = 2
        /\ loc[p].res.results[1] = loc[p].sorted[2]

\* C26: when a query names a sort field, every two neighbours of the sorted
\* sequence are in order under the type-aware ordering (numbers as numbers,
\* strings as strings, anything else by its text), the records whose sort field
\* cannot be extracted come before all the others ascending and after all of
\* them descending, and records with equal keys keep the order they had.
C26_SortedStable ==
    \A p \in Procs :
        (call[p].op \in {"Query", "applySorting"} /\ pc[p] = "done" /\ ret[p] = Ok
           /\ call[p].sortBy # "")
            => LET sorted == loc[p].sorted
                   desc == call[p].sortOrder \in {"desc", "DESC"}
                   key(i) == extractValue(heap, sorted[i], call[p].sortBy)
                   lt(x, y) == IF x.tag = "num" /\ y.tag = "num" THEN x.v < y.v
                               ELSE IF x.tag = "str" /\ y.tag = "str" THEN stringLess(x.v, y.v)
                               ELSE stringLess(Sprintf(x), Sprintf(y))
                   same(i, j) == IF key(i).err \/ key(j).err THEN key(i).err /\ key(j).err
                                 ELSE ~lt(key(i).v, key(j).v) /\ ~lt(key(j).v, key(i).v)
                   was(i) == CHOOSE k \in 1..Len(loc[p].candidates) :
                                 loc[p].candidates[k] = sorted[i]
               IN /\ \A i \in 1..(Len(sorted) - 1) :
                       (~key(i).err /\ ~key(i + 1).err)
                           => IF desc THEN ~lt(key(i).v, key(i + 1).v)
                              ELSE ~lt(key(i + 1).v, key(i).v)
                  /\ \A i, j \in 1..Len(sorted) :
                       (key(i).err /\ ~key(j).err) => IF desc THEN j < i ELSE i < j
                  /\ \A i, j \in 1..Len(sorted) :
                       (i < j /\ same(i, j)) => was(i) < was(j)

C28_UnknownOperatorIsError ==
    \A p \in Procs :
        (call[p].op = "Query" /\ pc[p] = "done"
           /\ \E j \in loc[p].evaluated : call[p].filters[j].operator \notin Operators)
            => ret[p].status = "err"

\* the call of p applies a path with a segment before the last that resolves,
\* in the metadata an entity it addresses had before the call, to a value that
\* is not a map
HitsNonMap(p) ==
    LET RECURSIVE blocked(_, _, _)
        blocked(tree, path, i) ==
            /\ i < Len(path)
            /\ tree.tag = "obj"
            /\ path[i] \in DOMAIN tree.v
            /\ \/ tree.v[path[i]].tag # "obj"
               \/ blocked(tree.v[path[i]], path, i + 1)
        pre == hist[p].pre.entities
        targets == IF call[p].op = "UpdateMetadataForEntity"
                   THEN {call[p].id} \cap DOMAIN pre
                   ELSE {id \in DOMAIN pre : matchesFilter(pre[id], call[p].filter)}
    IN \E id \in targets, path \in DOMAIN call[p].updates :
           blocked(pre[id].metadata, path, 1)

\* C29 as stated: for merge, replace and delete alike, a dot-path with a
\* segment before the last that resolves to a value that is not a map makes
\* the metadata mutation fail with an error.
C29_NonMapIntermediateAsStated ==
    \A p \in Procs :
        (call[p].op \in {"UpdateMetadataForEntity", "BulkUpdateMetadata"}
           /\ pc[p] = "done"
           /\ call[p].operation \in {"merge", "replace", "delete"}
           /\ HitsNonMap(p))
            => ret[p].status = "err"

\* C29, amended: for merge and replace such a path makes the metadata mutation
\* fail with an error; for delete the path counts as absent and no path error
\* is raised.
C29_NonMapIntermediate ==
    \A p \in Procs :
        (call[p].op \in {"UpdateMetadataForEntity", "BulkUpdateMetadata"}
           /\ pc[p] = "done" /\ HitsNonMap(p))
            => /\ call[p].operation \in {"merge", "replace"} => ret[p] = Err("badarg")
               /\ call[p].operation = "delete"
                    => /\ ~hist[p].pathErr
                       /\ ret[p] # Err("badarg")

\* a replace of a.b on e1, whose metadata holds a number under a
C29_Witness ==
    \E p \in Procs :
        /\ call[p].op = "UpdateMetadataForEntity" /\ pc[p] = "done"
        /\ call[p].operation = "replace"
        /\ <<"a", "b">> \in DOMAIN call[p].updates
        /\ call[p].id \in DOMAIN hist[p].pre.entities
        /\ hist[p].pre.entities[call[p].id].metadata = ObjA1
        /\ ret[p] = Err("badarg")

\* ----------------------------------------------------------------------
\* C30: the outcome of a successful update-entities call
\* ----------------------------------------------------------------------
\* a successful UpdateEntities call at its return
PatchedOk(p) ==
    call[p].op = "UpdateEntities" /\ pc[p] = "done" /\ ret[p] = Ok

\* the keys and values a patch carries as metadata
PatchMetadata(u) == MetaValue(heap, u.meta).v

\* a metadata object overlaid key by key with another
Overlay(old, new) ==
    [k \in (DOMAIN old) \cup (DOMAIN new) |-> IF k \in DOMAIN new THEN new[k] ELSE old[k]]

\* the entity value a single patch asks for, given the value before the call
PatchedValue(old, u) ==
    [type |-> IF u.type # "" THEN u.type ELSE old.type,
     name |-> IF u.name # <<>> THEN u.name ELSE old.name,
     description |-> IF u.description # <<>> THEN u.description ELSE old.description,
     metadata |-> Obj(Overlay(old.metadata.v, PatchMetadata(u)))]

Carrying(list, id, has(_)) == {i \in 1..Len(list) : list[i].id = id /\ has(list[i])}
LastOf(S) == CHOOSE i \in S : \A j \in S : j <= i

FirstMissing(present, ids) ==
    LET Gone(i) == ids[i] \notin present \/ \E j \in 1..(i - 1) : ids[j] = ids[i]
    IN IF \E i \in 1..Len(ids) : Gone(i)
       THEN CHOOSE i \in 1..Len(ids) : Gone(i) /\ \A j \in 1..(i - 1) : ~Gone(j)
       ELSE 0

Restrict(f, S) == [x \in (DOMAIN f) \cap S |-> f[x]]

\* C31: when DeleteEntities or DeleteObservations meets an id that is not
\* present it returns an error, the collection has lost exactly the listed
\* ids that precede the missing one, every other record (the ids that follow
\* it included) is as before, and no document write is performed.
C31_PartialDeleteOnMissingId ==
    \A p \in Procs :
        (pc[p] = "done" /\ call[p].op \in {"DeleteEntities", "DeleteObservations"}) =>
            LET ids == call[p].list
                ofEntities == call[p].op = "DeleteEntities"
                before == IF ofEntities THEN hist[p].pre.entities
                          ELSE hist[p].pre.observations
                now == IF ofEntities THEN Stored(entities, heap) ELSE observations
                k == FirstMissing(DOMAIN before, ids)
            IN /\ (k # 0) <=> (ret[p] = Err("notfound"))
               /\ k # 0 =>
                    /\ ret[p] = Err("notfound")
                    /\ now = Restrict(before, (DOMAIN before) \ {ids[j] : j \in 1..(k - 1)})
                    /\ ~hist[p].wrote
                    /\ IF ofEntities THEN observations = hist[p].pre.observations
                       ELSE Stored(entities, heap) = hist[p].pre.entities
                    /\ relations = hist[p].pre.relations

\* DeleteEntities of e1 and then an id that is gone: e1 is removed, e2 stays,
\* the call returns the error and nothing was written
C31_Witness ==
    \E p \in Procs :
        /\ pc[p] = "done" /\ call[p].op = "DeleteEntities"
        /\ Len(call[p].list) = 2 /\ call[p].list[1] = "e1"
        /\ DOMAIN hist[p].pre.entities = {"e1", "e2"}
        /\ DOMAIN entities = {"e2"}
        /\ ret[p] = Err("notfound")
        /\ ~hist[p].wrote

\* ----------------------------------------------------------------------
\* C32: the filters of a traversal
\* ----------------------------------------------------------------------
\* the entities at most k filter-passing relations away from a start node that
\* passes the node filter, every entity on the way passing it too
RECURSIVE FilteredReach(_, _)
FilteredReach(c, k) ==
    LET passes(id) == matchesEntity(entities[id], c.nodeFilter)
    IN IF k = 0
       THEN {id \in Range(c.startNodeIDs) \cap DOMAIN entities : passes(id)}
       ELSE LET near == FilteredReach(c, k - 1)
            IN near \cup
               {id \in DOMAIN entities :
                  /\ passes(id)
                  /\ \E x \in DOMAIN relations :
                       /\ matchesRelation(relations[x], c.relationFilter)
                       /\ \/ relations[x].source \in near /\ relations[x].target = id
                          \/ relations[x].target \in near /\ relations[x].source = id}

\* C32: a traversal, BFS or DFS, returns an entity if and only if it is a start
\* node that passes the node filter or is reachable from such a start node by
\* at most max_depth relations, taken in either direction, over relations that
\* pass the relation filter and entities that pass the node filter; a start
\* node that fails the node filter is never queued, visited or recorded.
C32_TraverseFilters ==
    \A p \in Procs :
        call[p].op = "Traverse" =>
            LET c == call[p]
                passes(id) == matchesEntity(entities[id], c.nodeFilter)
                hops == IF c.maxDepth < 0 THEN Cardinality(DOMAIN entities) ELSE c.maxDepth
            IN /\ \A i \in 1..Len(loc[p].queue) : passes(loc[p].queue[i].id)
               /\ \A i \in 1..Len(loc[p].stack) : passes(loc[p].stack[i].id)
               /\ \A id \in DOMAIN loc[p].visited : passes(id)
               /\ \A id \in Range(loc[p].res.visitedEntities) : passes(id)
               /\ (pc[p] = "done" /\ ret[p] = Ok)
                    => /\ Range(loc[p].res.visitedEntities) = FilteredReach(c, hops)
                       /\ DOMAIN loc[p].res.visitedDepths = FilteredReach(c, hops)

\* a traversal from e2, which fails the node filter, and u1: e1 hangs on e2
\* alone and is not returned
C32_Witness ==
    \E p \in Procs :
        /\ call[p].op = "Traverse" /\ pc[p] = "done" /\ ret[p] = Ok
        /\ call[p].startNodeIDs = <<"e2", "u1">>
        /\ call[p].nodeFilter # <<>>
        /\ call[p].maxDepth < 0
        /\ ~matchesEntity(entities["e2"], call[p].nodeFilter)
        /\ DOMAIN relations = {"r1"}
        /\ Range(loc[p].res.visitedEntities) = {"u1"}

\* ----------------------------------------------------------------------
\* C33: the entities of a subgraph
\* ----------------------------------------------------------------------
\* C33: GetSubgraph returns as entities exactly those within `radius`
\* relations, taken in either direction, of a start node that passes the node
\* filter, over entities that all pass it and over any stored relation: the
\* relation filter has no part in the entity set.
C33_SubgraphEntities ==
    \A p \in Procs :
        (call[p].op = "GetSubgraph" /\ pc[p] = "done" /\ ret[p] = Ok)
            => loc[p].res.subgraphEntities
                 = FilteredReach([call[p] EXCEPT !.relationFilter = <<>>], call[p].radius)

\* a subgraph around u1 with a relation filter: e2 hangs on u1 by a relation
\* the filter refuses, and is returned all the same, without the relation
C33_Witness ==
    \E p \in Procs :
        /\ call[p].op = "GetSubgraph" /\ pc[p] = "done" /\ ret[p] = Ok
        /\ call[p].startNodeIDs = <<"u1">> /\ call[p].radius = 1
        /\ call[p].relationFilter # <<>>
        /\ DOMAIN relations = {"r2"}
        /\ ~matchesRelation(relations["r2"], call[p].relationFilter)
        /\ "e2" \in loc[p].res.subgraphEntities
        /\ DOMAIN loc[p].res.subgraphRelations = {}

\* ----------------------------------------------------------------------
\* C34: what a dot-path mutation changes
\* ----------------------------------------------------------------------
\* the value a sequence of keys leads to in a JSON value, when there is one
RECURSIVE Lookup(_, _, _)
Lookup(v, q, i) ==
    IF i > Len(q) THEN [found |-> TRUE, v |-> v]
    ELSE IF v.tag # "obj" \/ q[i] \notin DOMAIN v.v THEN [found |-> FALSE, v |-> Num(0)]
    ELSE Lookup(v.v[q[i]], q, i + 1)

IsPrefix(q, r) == Len(q) <= Len(r) /\ SubSeq(r, 1, Len(q)) = q
KeyPaths == UNION {[1..n -> Keys] : n \in 1..4}

\* C34: a successful setNestedValue changes the leaf and the maps on the way
\* only. merge and replace leave a map at every intermediate part; a delete
\* that finds an intermediate part absent changes nothing; at the leaf, a
\* merge of a map onto a map gives the old map overlaid with the new one, any
\* other merge and a replace give the new value, a delete takes the key away;
\* whatever is not on the path is as before.
C34_PathMutation ==
    \A p \in Procs :
        (call[p].op = "setNestedValue" /\ pc[p] = "done" /\ ret[p] = Ok) =>
            LET path == CHOOSE x \in DOMAIN call[p].updates : TRUE
                operation == call[p].operation
                value == Marshal(heap, call[p].updates[path])
                before == hist[p].pre.entities["e1"].metadata
                after == MetaValue(heap, entities["e1"].meta)
                old == Lookup(before, path, 1)
                new == Lookup(after, path, 1)
                inner == {SubSeq(path, 1, n) : n \in 1..(Len(path) - 1)}
                absent == \E q \in inner : ~Lookup(before, q, 1).found
            IN /\ operation \in {"merge", "replace", "delete"}
               /\ operation # "delete" =>
                    \A q \in inner : Lookup(after, q, 1).found /\ Lookup(after, q, 1).v.tag = "obj"
               /\ (operation = "delete" /\ absent) => after = before
               /\ operation = "replace" => new = [found |-> TRUE, v |-> value]
               /\ operation = "merge" =>
                    new = [found |-> TRUE,
                           v |-> IF old.found /\ old.v.tag = "obj" /\ value.tag = "obj"
                                 THEN Obj(Overlay(old.v.v, value.v))
                                 ELSE value]
               /\ operation = "delete" => ~new.found
               /\ \A q \in KeyPaths :
                    (~IsPrefix(q, path) /\ ~IsPrefix(path, q))
                        => Lookup(after, q, 1) = Lookup(before, q, 1)

\* a merge of {a: 2} onto the map under a.b, which had a and b: a is
\* overwritten, b is kept, and the keys beside the path are as before
C34_Witness ==
    \E p \in Procs :
        /\ call[p].op = "setNestedValue" /\ pc[p] = "done" /\ ret[p] = Ok
        /\ call[p].operation = "merge"
        /\ DOMAIN call[p].updates = {<<"a", "b">>}
        /\ Lookup(hist[p].pre.entities["e1"].metadata, <<"a", "b">>, 1).v = ObjA1B1
        /\ Lookup(MetaValue(heap, entities["e1"].meta), <<"a", "b">>, 1).v
             = Obj([k \in {"a", "b"} |-> IF k = "a" THEN Num(2) ELSE Num(1)])
        /\ Lookup(MetaValue(heap, entities["e1"].meta), <<"b">>, 1).v = ObjA1

\* ----------------------------------------------------------------------
\* C35: every operation releases the lock as often as it took it
\* ----------------------------------------------------------------------
\* C35: on every exit path of every operation the lock is released as many
\* times as it was taken: no Unlock ever meets a lock that is not held (the
\* runtime stops the process when one does), and when the one caller is
\* between calls or back from one, the lock is free.
C35_LockBalanced ==
    /\ ~crashed
    /\ pc[Caller] \in {"idle", "done"} => LockFree

\* ----------------------------------------------------------------------
\* C36: what a rollback puts back
\* ----------------------------------------------------------------------
\* the record stored under an id, by value; <<>> when there is none
RecordOf(stored, id) == IF id \in DOMAIN stored THEN stored[id] ELSE <<>>

\* caller p is about to put its saved originals back after a failed save
AtRollback(p) ==
    /\ ~crashed
    /\ loc[p].saveErr
    /\ \/ call[p].op = "UpdateEntities" /\ pc[p] = "UE_rollback"
       \/ call[p].op = "UpdateMetadataForEntity" /\ pc[p] = "UM_saved"
       \/ call[p].op = "BulkUpdateMetadata" /\ pc[p] = "BK_saved"

\* another write took the lock after p's change, changed the record under id
\* (or took it away), and has returned success
ChangedSince(p, id) ==
    /\ RecordOf(Stored(entities, heap), id) # RecordOf(hist[p].post, id)
    /\ \E q \in Procs \ {p} :
          /\ pc[q] = "done" /\ ret[q] = Ok
          /\ hist[q].lockSeq > hist[p].lockSeq

\* C36: the rollback after a failed document write leaves alone every entity
\* that another write operation, completed since the failing operation's
\* change, has changed or deleted: it neither overwrites that change nor
\* brings a deleted entity back.
C36_RollbackUndoesOwnChangesOnly ==
    [][\A p \in Procs :
          (AtRollback(p) /\ pc'[p] # pc[p])
              => \A id \in EntityIds :
                    ChangedSince(p, id)
                        => RecordOf(Stored(entities', heap'), id)
                             = RecordOf(Stored(entities, heap), id)]_vars

MetadataAt(doc, id, k) ==
    IF id \in DOMAIN doc.entities /\ k \in DOMAIN doc.entities[id].metadata.v
    THEN doc.entities[id].metadata.v[k]
    ELSE <<>>

\* C38 as stated, for a run of two calls: UpdateMetadataForEntity sets key a
\* of e1 to 2 and returns an error, the other call is BulkUpdateMetadata,
\* which sets key b only; the persisted document never holds the value 2
\* under key a of e1, however the two calls interleave.
C38_NoFailedChangeOnDisk ==
    \A p \in Procs : \A q \in Procs \ {p} :
        (/\ nops = 2
         /\ pc[p] = "done" /\ ret[p].status = "err"
         /\ call[p].op = "UpdateMetadataForEntity" /\ hist[p].mutated
         /\ call[q].op = "BulkUpdateMetadata"
         /\ disk.kind = "doc")
            => MetadataAt(disk.doc, "e1", "a") # Num(2)

\* C38, amended: every change of the persisted document is a document write
\* that serialises the in-memory state current at the moment of the write,
\* and an operation that returns an error has made no successful document
\* write itself. (A change made by an operation that returned an error can
\* still be in the persisted document: another writer's write serialises it
\* while it is in memory.)
C38_WriteSerialisesCurrentState ==
    [][/\ (disk' # disk /\ disk'.kind = "doc")
            => disk'.doc = DocOf(entities, relations, observations, heap)
       /\ \A p \in Procs :
            (pc'[p] = "done" /\ ret'[p].status = "err")
                => ~(hist'[p].wrote /\ hist'[p].saved)]_vars

\* UpdateMetadataForEntity changed e1, its own write failed and it returned
\* an error; the other caller's BulkUpdateMetadata wrote the document between
\* the change and the rollback and returned success, and the document on disk
\* holds the change of the failed call
C38_Witness ==
    \E p \in Procs : \E q \in Procs \ {p} :
        /\ pc[p] = "done" /\ ret[p] = Err("persistence")
        /\ call[p].op = "UpdateMetadataForEntity" /\ hist[p].mutated /\ hist[p].wrote
        /\ pc[q] = "done" /\ ret[q] = Ok
        /\ call[q].op = "BulkUpdateMetadata" /\ hist[q].wrote
        /\ disk.kind = "doc"
        /\ MetadataAt(disk.doc, "e1", "a") = Num(2)
        /\ MetadataAt(hist[p].pre, "e1", "a") # Num(2)

\* ----------------------------------------------------------------------
\* C39: the depths of a DFS traversal
\* ----------------------------------------------------------------------
\* C39: in the result of a DFS traversal the depth reported for an entity is
\* the shallowest depth at which the traversal reached it, which is what the
\* visited map of DFS holds when the stack is empty: no encounter at a greater
\* depth has replaced a smaller depth recorded before.
C39_DFSDepthIsShallowest ==
    \A p \in Procs :
        (/\ call[p].op = "Traverse" /\ call[p].algorithm = "DFS"
         /\ pc[p] = "done" /\ ret[p] = Ok)
            => \A id \in DOMAIN loc[p].res.visitedDepths :
                  /\ id \in DOMAIN loc[p].visited
                  /\ loc[p].res.visitedDepths[id] = loc[p].visited[id]

\* ----------------------------------------------------------------------
\* C40: the searches terminate
\* ----------------------------------------------------------------------
\* C40: a BFS or DFS traversal, a subgraph extraction or a path search, on a
\* graph with cycles, a self-loop and parallel relations and with any bound
\* from -1 (none) up, comes to its return.
C40_SearchesTerminate == <>(pc[Caller] \in {"done", "idle"})

\* a DFS without a depth bound returned after it had gone over every entity
\* of a graph that holds a self-loop, two parallel relations and cycles
C40_Witness ==
    /\ call[Caller].op = "Traverse" /\ call[Caller].algorithm = "DFS"
    /\ call[Caller].maxDepth = -1
    /\ pc[Caller] = "done" /\ ret[Caller] = Ok
    /\ {"r1", "r3", "r4", "r5", "r6"} \subseteq DOMAIN relations
    /\ DOMAIN loc[Caller].visited = {"e1", "e2", "u1"}

====
